---- MODULE Spec2Model ----
(***************************************************************************)
(* A model of wrapkit: the interception pipeline of wrap() with its access *)
(* controller (glob.ts), token-bucket rate limiter (rate-limiter.ts),      *)
(* priority queue (queue.ts), event emitter and stats (state.ts) and the   *)
(* hook pipeline (wrap.ts).                                                *)
(*                                                                         *)
(* JavaScript runs one synchronous section at a time: every action below   *)
(* is one synchronous section (from a call, a timer or a settled promise   *)
(* up to the next await), and the actions interleave freely.               *)
(***************************************************************************)
EXTENDS Integers, Sequences, FiniteSets, TLC

\* ------------------------------------------------------------------ bounds
\* Number of calls a client that calls as it likes makes through the wrapper.
MaxCalls == 2
\* Date.now() stops advancing here (milliseconds since wrap()).
MaxTime == 1000
\* The same for the runs of the queue alone.
MaxQueueTime == 100
\* how often tryAcquire is seen to turn one call away
MaxDenials == 3
\* Number of views the client code holds, the root view included.
MaxViews == 3
\* Length of the glob patterns and of the method paths matched against them.
MaxPatternLen == 4
MaxPathLen == 5
\* how many handlers of one event the client code keeps registered
MaxHandlers == 3

\* ------------------------------------------------- optional values (x?: T)
\* An optional value is the empty set (undefined) or a singleton.
Undefined == {}
Some(x) == {x}
IsDefined(o) == o # {}
Val(o) == CHOOSE x \in o : TRUE

\* ------------------------------------------------- JavaScript numbers
\* The numbers of the rate limiter are finite rationals, Infinity or NaN.
\* A finite number is kept exactly, as an integer count of a unit that the
\* context fixes (see Scale); the model does not round as IEEE doubles do.
Fin(v) == [k |-> "fin", v |-> v]
Infinity == [k |-> "inf", v |-> 0]
NaN == [k |-> "nan", v |-> 0]

\* a + b (no operand is ever -Infinity here)
NumAdd(a, b) ==
  IF a.k = "nan" \/ b.k = "nan" THEN NaN
  ELSE IF a.k = "inf" \/ b.k = "inf" THEN Infinity
  ELSE Fin(a.v + b.v)

\* n * b for an integer n >= 0: 0 * Infinity is NaN
NumTimes(n, b) ==
  IF b.k = "nan" THEN NaN
  ELSE IF b.k = "inf" THEN (IF n = 0 THEN NaN ELSE Infinity)
  ELSE Fin(n * b.v)

\* Math.min(a, b): NaN when either operand is NaN
MathMin(a, b) ==
  IF a.k = "nan" \/ b.k = "nan" THEN NaN
  ELSE IF a.k = "inf" THEN b
  ELSE IF b.k = "inf" THEN a
  ELSE IF a.v <= b.v THEN a ELSE b

\* a >= b: every comparison with NaN is false
NumGeq(a, b) ==
  IF a.k = "nan" \/ b.k = "nan" THEN FALSE
  ELSE IF a.k = "inf" THEN TRUE
  ELSE IF b.k = "inf" THEN FALSE
  ELSE a.v >= b.v

\* a - b for a finite b
NumMinus(a, b) == IF a.k = "fin" THEN Fin(a.v - b.v) ELSE a

\* Math.ceil(n / d) for integers n, d with d > 0
CeilDiv(n, d) == IF n % d = 0 THEN n \div d ELSE (n \div d) + 1

\* ------------------------------------------------- strings
\* A string is a sequence of one-character strings: "a.b" is <<"a",".","b">>.
Dot == "."
Star == "*"

\* str.split('.'): the parts between the dots (an empty string gives [""])
RECURSIVE SplitDots(_)
SplitDots(str) ==
  IF \A i \in 1..Len(str) : str[i] # Dot THEN <<str>>
  ELSE LET i == CHOOSE j \in 1..Len(str) :
                  str[j] = Dot /\ \A h \in 1..(j - 1) : str[h] # Dot
       IN <<SubSeq(str, 1, i - 1)>> \o SplitDots(SubSeq(str, i + 1, Len(str)))

\* ------------------------------------------------- glob.ts
\* A regular expression is a sequence of items: a literal character,
\* ".+" (one or more characters) or "[^.]+" (one or more non-dot characters).
\* The strings of the model hold letters, dots and stars, no line terminator
\* (which "." would not match).
Lit(c) == [t |-> "lit", c |-> c]
AnyPlus == [t |-> "any+", c |-> ""]
NoDotPlus == [t |-> "nodot+", c |-> ""]

\* escapeRegex: every character of the part stands for itself
escapeRegex(str) == [i \in 1..Len(str) |-> Lit(str[i])]

\* a translation in which * spans segments as ** does
partToRegex_greedyStar(part) ==
  IF part = <<Star, Star>> \/ part = <<Star>> THEN <<AnyPlus>> ELSE escapeRegex(part)

\* the regex of one pattern part
partToRegex(part) ==
  IF part = <<Star, Star>> THEN <<AnyPlus>>
  ELSE IF part = <<Star>> THEN <<NoDotPlus>>
  ELSE escapeRegex(part)

\* regexParts.join('\\.')
RECURSIVE joinDots(_)
joinDots(regexParts) ==
  IF Len(regexParts) = 0 THEN <<>>
  ELSE IF Len(regexParts) = 1 THEN regexParts[1]
  ELSE regexParts[1] \o <<Lit(Dot)>> \o joinDots(Tail(regexParts))

patternToRegex(pattern) ==
  LET parts == SplitDots(pattern)
  IN joinDots([i \in 1..Len(parts) |-> partToRegex(parts[i])])

\* regex.test(str) for an anchored regex (^...$): the whole of str matches
RECURSIVE regexTest(_, _)
regexTest(regex, str) ==
  IF Len(regex) = 0 THEN Len(str) = 0
  ELSE LET item == regex[1]
           rest == Tail(regex)
       IN IF item.t = "lit"
          THEN Len(str) > 0 /\ str[1] = item.c /\ regexTest(rest, Tail(str))
          ELSE \E n \in 1..Len(str) :
                 /\ item.t = "nodot+" => \A i \in 1..n : str[i] # Dot
                 /\ regexTest(rest, SubSeq(str, n + 1, Len(str)))

matchPattern(methodPath, pattern) == regexTest(patternToRegex(pattern), methodPath)

matchesAnyPattern(methodPath, patterns) ==
  \E i \in 1..Len(patterns) : matchPattern(methodPath, patterns[i])

\* a check that looks at the allowlist first
checkAccess_allowFirst(methodPath, allowlist, blocklist) ==
  IF IsDefined(allowlist) /\ ~matchesAnyPattern(methodPath, Val(allowlist))
  THEN [isAllowed |-> FALSE, reason |-> <<"not allowed", methodPath>>]
  ELSE IF IsDefined(blocklist) /\ matchesAnyPattern(methodPath, Val(blocklist))
  THEN [isAllowed |-> FALSE, reason |-> <<"blocked", methodPath>>]
  ELSE [isAllowed |-> TRUE, reason |-> <<"undefined", methodPath>>]

\* checkAccess: the list arguments are optional (undefined or a list)
checkAccess(methodPath, allowlist, blocklist) ==
  IF IsDefined(blocklist) /\ matchesAnyPattern(methodPath, Val(blocklist))
  THEN [isAllowed |-> FALSE, reason |-> <<"blocked", methodPath>>]
  ELSE IF IsDefined(allowlist) /\ ~matchesAnyPattern(methodPath, Val(allowlist))
  THEN [isAllowed |-> FALSE, reason |-> <<"not allowed", methodPath>>]
  ELSE [isAllowed |-> TRUE, reason |-> <<"undefined", methodPath>>]

\* ------------------------------------------------- rate-limiter.ts
MsPerSecond == 1000
SecondsPerMinute == 60
\* One token is Scale units: tokens, maxTokens and tokensPerMs are counted in
\* 1/Scale token, so that every rate given as a whole number of requests per
\* second or per minute is exact.  A rate (requests per second) is counted in
\* 1/SecondsPerMinute request per second.
Scale == SecondsPerMinute * MsPerSecond
\* delayMs of a denial by the concurrency cap
ConcurrencyDelayMs == 50

\* The paths of the wrapped client's methods.
Paths == { <<"f">>, <<"s">>, <<"c", ".", "f">> }

\* A RateLimitConfig {requestsPerSecond?, requestsPerMinute?, concurrency?}
\* and a PerMethodRateLimitConfig {default?, perMethod?} are one record with
\* optional fields; a number field holds a JavaScript number in its own unit.
RateConfig(rps, rpm, conc) ==
  [requestsPerSecond |-> rps, requestsPerMinute |-> rpm, concurrency |-> conc,
   default |-> Undefined, perMethod |-> Undefined]
PerMethodConfig(def, perMethod) ==
  [requestsPerSecond |-> Undefined, requestsPerMinute |-> Undefined,
   concurrency |-> Undefined, default |-> def, perMethod |-> perMethod]

\* a JavaScript number used as a condition: 0 and NaN are falsy
Truthy(o) == IsDefined(o) /\ Val(o).k # "nan" /\ ~(Val(o).k = "fin" /\ Val(o).v = 0)

isPerMethodConfig(config) == IsDefined(config.default) \/ IsDefined(config.perMethod)

\* the default entry before the entry of the path
getConfigForMethod_defaultFirst(config, methodPath) ==
  IF ~isPerMethodConfig(config) THEN Some(config)
  ELSE IF IsDefined(config.default) THEN config.default
  ELSE IF IsDefined(config.perMethod) THEN Val(config.perMethod)[methodPath]
  ELSE Undefined

\* config.perMethod?.[methodPath] ?? config.default; the result is optional
getConfigForMethod(config, methodPath) ==
  IF ~isPerMethodConfig(config) THEN Some(config)
  ELSE IF IsDefined(config.perMethod) /\ IsDefined(Val(config.perMethod)[methodPath])
       THEN Val(config.perMethod)[methodPath]
       ELSE config.default

\* in 1/SecondsPerMinute request per second
getRequestsPerSecond(config) ==
  IF Truthy(config.requestsPerSecond)
  THEN NumTimes(SecondsPerMinute, Val(config.requestsPerSecond))
  ELSE IF Truthy(config.requestsPerMinute)
  THEN Val(config.requestsPerMinute)
  ELSE Infinity

\* a bucket that holds one token whatever the rate
maxTokensOf_single(rps) == IF rps.k # "fin" THEN rps ELSE Fin(Scale)

\* Math.max(1, Math.ceil(rps)) tokens, in 1/Scale token
maxTokensOf(rps) ==
  IF rps.k # "fin" THEN rps
  ELSE LET c == CeilDiv(rps.v, SecondsPerMinute)
       IN Fin(Scale * (IF c >= 1 THEN c ELSE 1))

\* createBucket at time t = Date.now().  rps / 1000 tokens per millisecond is
\* rps.v units per millisecond: the number is the same in the two units.
createBucket(config, t) ==
  LET rps == getRequestsPerSecond(config)
  IN [tokens |-> maxTokensOf(rps), lastRefill |-> t,
      tokensPerMs |-> rps, maxTokens |-> maxTokensOf(rps)]

\* refillBucket at time t = Date.now()
refillBucket(bucket, t) ==
  LET elapsed == t - bucket.lastRefill
      newTokens == NumTimes(elapsed, bucket.tokensPerMs)
  IN [bucket EXCEPT
        !.tokens = MathMin(bucket.maxTokens, NumAdd(bucket.tokens, newTokens)),
        !.lastRefill = t]

\* createRateLimiter: no bucket yet, every count absent (read as 0)
createRateLimiter(config) ==
  [buckets |-> [p \in Paths |-> Undefined],
   concurrentCount |-> [p \in Paths |-> 0],
   config |-> config]

\* getBucket: the bucket of the path and whether it is stored in the map
getBucket(state, methodPath, t) ==
  LET methodConfig == getConfigForMethod(state.config, methodPath)
  IN IF ~IsDefined(methodConfig)
     THEN [bucket |-> createBucket(RateConfig(Some(Infinity), Undefined, Undefined), t),
           stored |-> FALSE]
     ELSE IF IsDefined(state.buckets[methodPath])
     THEN [bucket |-> Val(state.buckets[methodPath]), stored |-> TRUE]
     ELSE [bucket |-> createBucket(Val(methodConfig), t), stored |-> TRUE]

incrementConcurrent(state, methodPath) ==
  [state EXCEPT !.concurrentCount[methodPath] = @ + 1]

decrementConcurrent(state, methodPath) ==
  [state EXCEPT !.concurrentCount[methodPath] = IF @ - 1 >= 0 THEN @ - 1 ELSE 0]

\* Math.ceil(tokensNeeded / tokensPerMs) with tokensNeeded = 1 - tokens
delayMsOf(bucket) ==
  IF bucket.tokens.k = "nan" \/ bucket.tokensPerMs.k = "nan" THEN NaN
  ELSE IF bucket.tokens.k = "inf" THEN NaN
  ELSE IF bucket.tokensPerMs.k = "inf" THEN Fin(0)
  ELSE IF bucket.tokensPerMs.v = 0 THEN Infinity
  ELSE Fin(CeilDiv(Scale - bucket.tokens.v, bucket.tokensPerMs.v))

\* the cap of the path, when one applies (methodConfig?.concurrency is truthy)
concurrencyCap(state, methodPath) ==
  LET methodConfig == getConfigForMethod(state.config, methodPath)
  IN IF IsDefined(methodConfig) /\ Truthy(Val(methodConfig).concurrency)
     THEN Val(methodConfig).concurrency
     ELSE Undefined

\* tryAcquire at time t: the new limiter state and the AcquireResult.
\* createBucket and refillBucket read Date.now() in one synchronous section:
\* both see the same millisecond t.
tryAcquire(state, methodPath, t) ==
  LET cap == concurrencyCap(state, methodPath)
      current == state.concurrentCount[methodPath]
  IN IF IsDefined(cap) /\ NumGeq(Fin(current), Val(cap))
     THEN [state |-> state, canProceed |-> FALSE, delayMs |-> Fin(ConcurrencyDelayMs)]
     ELSE
       LET got == getBucket(state, methodPath, t)
           bucket == refillBucket(got.bucket, t)
           keep(b) == IF got.stored
                      THEN [state EXCEPT !.buckets[methodPath] = Some(b)]
                      ELSE state
       IN IF NumGeq(bucket.tokens, Fin(Scale))
          THEN [state |-> incrementConcurrent(
                            keep([bucket EXCEPT !.tokens = NumMinus(@, Fin(Scale))]),
                            methodPath),
                canProceed |-> TRUE, delayMs |-> Fin(0)]
          ELSE [state |-> keep(bucket), canProceed |-> FALSE,
                delayMs |-> delayMsOf(bucket)]

\* ------------------------------------------------- queue.ts
Priorities == {"critical", "high", "normal", "low"}

PRIORITY_ORDER(priority) ==
  CASE priority = "critical" -> 0
    [] priority = "high" -> 1
    [] priority = "normal" -> 2
    [] priority = "low" -> 3

\* A QueueConfig {concurrency?, timeout?, maxSize?}: optional integers.
QueueConfig(concurrency, timeout, maxSize) ==
  [concurrency |-> concurrency, timeout |-> timeout, maxSize |-> maxSize]

createQueue(config) ==
  [queue |-> <<>>, running |-> 0, paused |-> FALSE, nextId |-> 0, config |-> config]

\* a comparator that knows arrival order only
sortByPriority_arrivalOnly(a, b) == a.id - b.id

\* the comparator of queue.sort: negative when a goes before b
sortByPriority(a, b) ==
  LET priorityDiff == PRIORITY_ORDER(a.priority) - PRIORITY_ORDER(b.priority)
  IN IF priorityDiff # 0 THEN priorityDiff ELSE a.id - b.id

\* state.queue.sort(sortByPriority)
sortQueue(queue) == SortSeq(queue, LAMBDA a, b : sortByPriority(a, b) < 0)

\* a gate that does not look at the running count
canProcessNext_uncapped(state) == ~state.paused /\ Len(state.queue) > 0

\* a gate that does not look at paused
canProcessNext_unpausable(state) ==
  IF IsDefined(state.config.concurrency)
     /\ state.running >= Val(state.config.concurrency) THEN FALSE
  ELSE Len(state.queue) > 0

canProcessNext(state) ==
  IF state.paused THEN FALSE
  ELSE IF IsDefined(state.config.concurrency)
          /\ state.running >= Val(state.config.concurrency) THEN FALSE
  ELSE Len(state.queue) > 0

getQueueSize(state) == Len(state.queue)
getRunningCount(state) == state.running


\* ------------------------------------------------- state.ts, wrap.ts
EventNames == {"queued", "executing", "completed", "rateLimited", "error"}
\* An event handler either returns or throws whenever it is called.
Handlers == {"returns", "throws"}


\* A WrapConfig.  hooks tells which of the global hooks are defined.
WrapConfig(hooks, rateLimit, queue, allowlist, blocklist) ==
  [hooks |-> hooks, rateLimit |-> rateLimit, queue |-> queue,
   allowlist |-> allowlist, blocklist |-> blocklist]
NoHooks == [before |-> FALSE, after |-> FALSE, onError |-> FALSE]
AllHooks == [before |-> TRUE, after |-> TRUE, onError |-> TRUE]

\* A view of the wrapper: the perCallOptions and plugins of its WrapperState.
PerCallOptions(priority, timeout, skipQueue) ==
  [priority |-> priority, timeout |-> timeout, skipQueue |-> skipQueue]
View(perCallOptions, plugins) == [perCallOptions |-> perCallOptions, plugins |-> plugins]
RootView == View(Undefined, <<>>)
\* view.withOptions(opts) and view.use(plugin)
createWithOptions(view, opts) == [view EXCEPT !.perCallOptions = Some(opts)]
createUse(view, plugin) == [view EXCEPT !.plugins = Append(@, plugin)]

NoPath == <<>>
Pending == [st |-> "pending", why |-> <<"", NoPath>>]
Resolved(what) == [st |-> "resolved", why |-> <<what, NoPath>>]
Rejected(what, path) == [st |-> "rejected", why |-> <<what, path>>]

\* What the model keeps of one call c of the client code:
\*   pc        where executeCore(c) stands: "idle" (not called yet), "none"
\*             (refused, never executed), "queued", "waiting" (in the
\*             setTimeout of waitForRateLimit), "admitted" (waitForRateLimit
\*             returned), "waitThrew" / "coreThrew" (a listener threw inside /
\*             before the try block), "invoked" (the wrapped function runs),
\*             "retrying" (it runs again, called by retry()), "finished";
\*   outcome   the promise the caller holds;
\*   slot      "held" while the call counts in queue.running, then "released";
\*   rlDue, qDue  when the pending timers fire (waitForRateLimit, queue timeout);
\*   the rest is history: the events emitted and hooks run for the call, how
\*   often the wrapped function was invoked, whether and when tryAcquire
\*   admitted it, and its request id; executions is what runPluginsBefore
\*   returned, fnResult how the wrapped function settled; args is the
\*   argument list as it stands ("args" as the caller gave it), applied the
\*   receiver and arguments of every invocation of the wrapped function;
\*   callTime is when the client code made the call, queuedSize the
\*   queueSize its queued event carried.
NewCall ==
  [pc |-> "idle", path |-> NoPath, view |-> RootView, outcome |-> Pending,
   slot |-> "none", startTime |-> 0, rlDue |-> Undefined, qDue |-> Undefined,
   emitted |-> <<>>, hooks |-> <<>>, invoked |-> 0,
   admitted |-> FALSE, admitTime |-> 0, requestId |-> Undefined, denials |-> 0,
   executions |-> <<>>, fnResult |-> "none", args |-> "args", applied |-> <<>>,
   callTime |-> 0, queuedSize |-> Undefined]

\* now          Date.now(), in ms since wrap() returned
\* config       the WrapConfig given to wrap()
\* queueState, rateLimiter, listeners, stats   the fields of the WrapperState
\* calls        the calls of the client code, numbered in the order it makes them
\* dispatched   the requests processNext has started, in order, each with the
\*              number of requests it left in the queue (history)
\* plan         the calls a scripted client is still to make (view and path of
\*              each); empty for a client that calls as it likes
\* wrapped      what wrap(client, config) gave: Pending before it is called,
\*              then the wrapper or the error it threw
\* views        the views of the wrapper the client code holds, in the order
\*              it got them: the root view, then those use() and
\*              withOptions() returned
\* delivery     the last emission to handlers that were told apart: the
\*              event, the handlers registered when it started and the
\*              handlers called, in order (history)
\* got          the last property read on the wrapper: the proxy it was read
\*              on (its target and path), the name and what the read gave
VARIABLES now, config, queueState, rateLimiter, listeners, stats, calls, dispatched, plan,
          wrapped, views, delivery, got
vars == <<now, config, queueState, rateLimiter, listeners, stats, calls, dispatched, plan,
          wrapped, views, delivery, got>>

Calls == DOMAIN calls

\* a number that is the quotient of two integers (den > 0), kept unreduced
Ratio(num, den) == [num |-> num, den |-> den]

\* latencies.reduce((a, b) => a + b, 0)
RECURSIVE reduceSum(_)
reduceSum(latencies) ==
  IF Len(latencies) = 0 THEN 0 ELSE Head(latencies) + reduceSum(Tail(latencies))

\* createInitialState
createInitialState(cfg) ==
  [rateLimiter |-> IF IsDefined(cfg.rateLimit)
                   THEN Some(createRateLimiter(Val(cfg.rateLimit))) ELSE Undefined,
   queueState |-> IF IsDefined(cfg.queue)
                  THEN Some(createQueue(Val(cfg.queue))) ELSE Undefined,
   stats |-> [totalRequests |-> 0, latencies |-> <<>>, averageLatency |-> Ratio(0, 1),
              requestsPerMinute |-> 0, errorRate |-> 0],
   listeners |-> [e \in EventNames |-> {}]]

\* a validation that takes an empty list for no list
validateConfig_nonEmpty(cfg) ==
  ~(IsDefined(cfg.allowlist) /\ Val(cfg.allowlist) # <<>>
    /\ IsDefined(cfg.blocklist) /\ Val(cfg.blocklist) # <<>>)

\* validateConfig: wrap() throws when both lists are given (an array, empty
\* or not, is truthy).  No config at all is the config with no field.
validateConfig(cfg) == ~(IsDefined(cfg.allowlist) /\ IsDefined(cfg.blocklist))

\* The mutable state the pipeline works on, as one value.
Machine ==
  [queueState |-> queueState, rateLimiter |-> rateLimiter, stats |-> stats,
   calls |-> calls, dispatched |-> dispatched]

Apply(m) ==
  \E after \in {m} :
    /\ queueState' = after.queueState
    /\ rateLimiter' = after.rateLimiter
    /\ stats' = after.stats
    /\ calls' = after.calls
    /\ dispatched' = after.dispatched
    /\ UNCHANGED <<now, config, listeners, wrapped, views, delivery, got>>

Commit(m) == Apply(m) /\ UNCHANGED plan

Planned(view, methodPath) == [view |-> view, path |-> methodPath]

\* emitEvent for call c: recorded, and thrown out of when a handler throws
emitThrows(event) == "throws" \in listeners[event]
emitEvent(m, c, event) == [m EXCEPT !.calls[c].emitted = Append(@, event)]

\* an updateStats that also keeps requestsPerMinute
updateStats_perMinute(m, latencyMs) ==
  LET latencies == Append(m.stats.latencies, latencyMs)
  IN [m EXCEPT !.stats.latencies = latencies,
               !.stats.totalRequests = @ + 1,
               !.stats.averageLatency = Ratio(reduceSum(latencies), Len(latencies)),
               !.stats.requestsPerMinute = Len(latencies)]

\* updateStats
updateStats(m, latencyMs) ==
  LET latencies == Append(m.stats.latencies, latencyMs)
  IN [m EXCEPT !.stats.latencies = latencies,
               !.stats.totalRequests = @ + 1,
               !.stats.averageLatency = Ratio(reduceSum(latencies), Len(latencies))]

\* setTimeout(f, delayMs): a delay that is NaN or below 1 is 1 ms
timerDelay(delayMs) == IF delayMs.k = "fin" /\ delayMs.v >= 1 THEN delayMs.v ELSE 1

\* a gate that lets every path through
checkMethodAccess_open(cfg, methodPath) ==
  [isAllowed |-> TRUE, reason |-> <<"undefined", methodPath>>]

\* checkMethodAccess: the result of checkAccess for the call's path
checkMethodAccess(cfg, methodPath) ==
  checkAccess(methodPath, cfg.allowlist, cfg.blocklist)

\* waitForRateLimit up to its first await, and again when its timer fires
waitForRateLimit(m, c, t) ==
  IF ~IsDefined(m.rateLimiter) THEN [m EXCEPT !.calls[c].pc = "admitted"]
  ELSE LET result == tryAcquire(Val(m.rateLimiter), m.calls[c].path, t)
           m1 == [m EXCEPT !.rateLimiter = Some(result.state)]
       IN IF result.canProceed
          THEN [m1 EXCEPT !.calls[c].pc = "admitted",
                          !.calls[c].admitted = TRUE,
                          !.calls[c].admitTime = t,
                          !.calls[c].rlDue = Undefined]
          ELSE LET m2 == [emitEvent(m1, c, "rateLimited") EXCEPT
                            !.calls[c].denials = @ + 1]
               IN IF emitThrows("rateLimited")
                  THEN [m2 EXCEPT !.calls[c].pc = "waitThrew",
                                  !.calls[c].rlDue = Undefined]
                  ELSE [m2 EXCEPT !.calls[c].pc = "waiting",
                                  !.calls[c].rlDue = Some(t + timerDelay(result.delayMs))]

\* executeCore up to its first await
executeCore(m, c, t) ==
  LET m1 == emitEvent([m EXCEPT !.calls[c].startTime = t], c, "executing")
  IN IF emitThrows("executing")
     THEN [m1 EXCEPT !.calls[c].pc = "coreThrew"]
     ELSE waitForRateLimit(m1, c, t)

\* a processNext whose timer runs from the time of the call
processNext_fromEnqueue(m, t) ==
  LET state == Val(m.queueState)
  IN IF ~canProcessNext(state) THEN m
     ELSE LET sorted == sortQueue(state.queue)
              request == Head(sorted)
              c == request.call
              m1 == [m EXCEPT
                       !.queueState = Some([state EXCEPT !.queue = Tail(sorted),
                                                         !.running = @ + 1]),
                       !.dispatched = Append(@, [id |-> request.id,
                                                 priority |-> request.priority,
                                                 call |-> c,
                                                 left |-> Len(sorted) - 1]),
                       !.calls[c].slot = "held",
                       !.calls[c].qDue =
                          IF IsDefined(state.config.timeout)
                             /\ Val(state.config.timeout) # 0
                          THEN Some(m.calls[c].callTime + Val(state.config.timeout))
                          ELSE Undefined]
          IN executeCore(m1, c, t)

\* processNext: starts at most one queued request
processNext(m, t) ==
  LET state == Val(m.queueState)
  IN IF ~canProcessNext(state) THEN m
     ELSE LET sorted == sortQueue(state.queue)
              request == Head(sorted)
              c == request.call
              m1 == [m EXCEPT
                       !.queueState = Some([state EXCEPT !.queue = Tail(sorted),
                                                         !.running = @ + 1]),
                       !.dispatched = Append(@, [id |-> request.id,
                                                 priority |-> request.priority,
                                                 call |-> c,
                                                 left |-> Len(sorted) - 1]),
                       !.calls[c].slot = "held",
                       !.calls[c].qDue =
                          IF IsDefined(state.config.timeout)
                             /\ Val(state.config.timeout) # 0
                          THEN Some(t + Val(state.config.timeout)) ELSE Undefined]
          IN executeCore(m1, c, t)

\* enqueue, after the request was accepted
enqueue(m, c, priority, t) ==
  LET state == Val(m.queueState)
      request == [id |-> state.nextId, priority |-> priority, call |-> c]
      m1 == [m EXCEPT !.queueState = Some([state EXCEPT !.nextId = @ + 1,
                                                        !.queue = Append(@, request)]),
                      !.calls[c].pc = "queued",
                      !.calls[c].requestId = Some(request.id)]
  IN processNext(m1, t)

\* a limit that counts the running requests as well
queueIsFull_countingRunning(state) ==
  IsDefined(state.config.maxSize)
  /\ Len(state.queue) + state.running >= Val(state.config.maxSize)

queueIsFull(state) ==
  IsDefined(state.config.maxSize) /\ Len(state.queue) >= Val(state.config.maxSize)

\* state.perCallOptions?.priority ?? 'normal'
priorityOf(view) ==
  IF IsDefined(view.perCallOptions) /\ IsDefined(Val(view.perCallOptions).priority)
  THEN Val(Val(view.perCallOptions).priority) ELSE "normal"

\* executeWithHooks: a call of a wrapped method through a view
executeWithHooks(m, c, view, methodPath, t) ==
  LET access == checkMethodAccess(config, methodPath)
      m0 == [m EXCEPT !.calls[c].path = methodPath, !.calls[c].view = view,
                      !.calls[c].callTime = t]
  IN IF ~access.isAllowed
     THEN [m0 EXCEPT !.calls[c].pc = "none",
                     !.calls[c].outcome = Rejected(access.reason[1], access.reason[2])]
     ELSE IF IsDefined(m.queueState)
     THEN LET m1 == [emitEvent(m0, c, "queued") EXCEPT
                            !.calls[c].queuedSize =
                               Some(getQueueSize(Val(m.queueState)) + 1)]
          IN IF emitThrows("queued")
             THEN [m1 EXCEPT !.calls[c].pc = "none",
                             !.calls[c].outcome = Rejected("handler threw", NoPath)]
             ELSE IF queueIsFull(Val(m.queueState))
             THEN [m1 EXCEPT !.calls[c].pc = "none",
                             !.calls[c].outcome = Rejected("Queue is full", NoPath)]
             ELSE enqueue(m1, c, priorityOf(view), t)
     ELSE executeCore(m0, c, t)

\* A plugin {name, before?, after?, onError?}: which hooks it defines.
Plugin(name, before, after, onError) ==
  [name |-> name, before |-> before, after |-> after, onError |-> onError]

\* Which hook invocation of a section throws, if any: the hook and who
\* defines it ("global" or the name of a plugin).  A hook that throws throws
\* an Error.
Fault(hook, by) == [hook |-> hook, by |-> by]
NoFault == Fault("none", "none")

\* What the plugin hooks of the client code return when they do not throw:
\* the onError hook of plugin1 returns a value, every other hook nothing.
\* (What a before hook returns is its context, see ContextOf.)
pluginReturns(hook, by) ==
  IF hook = "onError" /\ by = "plugin1" THEN "value" ELSE "undefined"

\* One entry of a call's hook history: the hook, who defines it, the context
\* a plugin's before hook returned or its after / onError hook was given,
\* whether the hook threw, and what it returned otherwise.
Ran(hook, by, context, fault) ==
  [hook |-> hook, by |-> by, context |-> context, threw |-> fault = Fault(hook, by),
   returned |-> IF fault = Fault(hook, by) THEN "nothing" ELSE pluginReturns(hook, by)]

\* the value the before hook of plugin name returns in call c
ContextOf(c, name) == Some(<<c, name>>)

Reverse(seq) == [i \in 1..Len(seq) |-> seq[Len(seq) + 1 - i]]

\* the first entry that threw and all entries before it; all when none threw
UpToThrow(entries) ==
  IF \E i \in 1..Len(entries) : entries[i].threw
  THEN SubSeq(entries, 1, CHOOSE i \in 1..Len(entries) :
                            entries[i].threw /\ \A h \in 1..(i - 1) : ~entries[h].threw)
  ELSE entries
AnyThrew(entries) == \E i \in 1..Len(entries) : entries[i].threw

\* What hooks.before of the client code returns: a new argument list for
\* method s, nothing for the other methods.
beforeReturns(methodPath) == IF methodPath = <<"s">> THEN "modified-arg" ELSE "undefined"

\* runBeforeHook, when hooks.before is defined: the machine and whether the
\* hook threw; result ?? args is the argument list from here on
runBeforeHook(m, c, fault) ==
  LET threw == fault = Fault("before", "global")
      result == beforeReturns(m.calls[c].path)
  IN IF config.hooks.before
     THEN [m |-> [m EXCEPT !.calls[c].hooks =
                     Append(@, [Ran("before", "global", Undefined, fault) EXCEPT
                                  !.returned = IF threw THEN "nothing" ELSE result]),
                           !.calls[c].args =
                              IF threw \/ result = "undefined" THEN @ ELSE result],
           threw |-> threw]
     ELSE [m |-> m, threw |-> FALSE]

\* the executions runPluginsBefore builds in call c with every plugin's
\* context the context of the first plugin
runPluginsBefore_shared(m, c, fault) ==
  LET plugins == m.calls[c].view.plugins
  IN [m |-> [m EXCEPT !.calls[c].executions =
               [i \in 1..Len(plugins) |->
                  [plugin |-> plugins[i], context |-> ContextOf(c, plugins[1].name)]]],
      threw |-> FALSE]

\* runPluginsBefore: the before hooks of the view's plugins in registration
\* order, until one throws; the executions pair every plugin with the context
\* its before hook returned (undefined without a before hook)
runPluginsBefore(m, c, fault) ==
  LET plugins == m.calls[c].view.plugins
      defined == SelectSeq(plugins, LAMBDA plugin : plugin.before)
      entries == UpToThrow([i \in 1..Len(defined) |->
                   Ran("before", defined[i].name, ContextOf(c, defined[i].name), fault)])
      executions == [i \in 1..Len(plugins) |->
                       [plugin |-> plugins[i],
                        context |-> IF plugins[i].before
                                    THEN ContextOf(c, plugins[i].name) ELSE Undefined]]
  IN [m |-> [m EXCEPT !.calls[c].hooks = @ \o entries,
                      !.calls[c].executions =
                         IF AnyThrew(entries) THEN @ ELSE executions],
      threw |-> AnyThrew(entries)]

\* the hooks named hook of the executions in reverse order, each given the
\* context of its own execution, until one throws
runPluginHooks(m, c, hook, fault) ==
  LET reversed == Reverse(m.calls[c].executions)
      defined == SelectSeq(reversed, LAMBDA e : IF hook = "after" THEN e.plugin.after
                                                ELSE e.plugin.onError)
      entries == UpToThrow([i \in 1..Len(defined) |->
                   Ran(hook, defined[i].plugin.name, defined[i].context, fault)])
  IN [m |-> [m EXCEPT !.calls[c].hooks = @ \o entries], threw |-> AnyThrew(entries)]

runPluginsAfter(m, c, fault) == runPluginHooks(m, c, "after", fault)

runPluginsOnError(m, c, fault) == runPluginHooks(m, c, "onError", fault)

runAfterHook(m, c, fault) ==
  IF config.hooks.after
  THEN [m |-> [m EXCEPT !.calls[c].hooks =
                  Append(@, Ran("after", "global", Undefined, fault))],
        threw |-> fault = Fault("after", "global")]
  ELSE [m |-> m, threw |-> FALSE]

\* what a promise rejects with: the Error or the other value the wrapped
\* function threw, or the Error a hook threw
ThrownBy(thrown) ==
  CASE thrown = "Error" -> Rejected("error", NoPath)
    [] thrown = "value" -> Rejected("thrown value", NoPath)
    [] thrown = "hook" -> Rejected("hook error", NoPath)

\* fn.apply(target, args): one more invocation of the wrapped function, with
\* the receiver the method was read from
fnApply(m, c, args) ==
  [m EXCEPT !.calls[c].invoked = @ + 1,
            !.calls[c].applied = Append(@, [target |-> "target", args |-> args]),
            !.calls[c].hooks = Append(@, Ran("call", "method", Undefined, NoFault))]

\* a retry that passes the arguments the caller gave
createRetryHelper_callerArgs(m, c) == fnApply(m, c, "args")

\* retry() of createRetryHelper: execCtx.fn.apply(execCtx.target, execCtx.args)
createRetryHelper(m, c) == fnApply(m, c, m.calls[c].args)

\* What hooks.onError of the client code does, unless it throws an Error of
\* its own: it returns a fallback value, returns nothing, throws the error it
\* was given, or returns retry().
Answers == {"fallback", "undefined", "rethrow", "retry"}
\* the promise of retry() has not settled
Retrying == [st |-> "retrying", why |-> <<"", NoPath>>]

\* a handleError that calls hooks.onError and throws the error all the same
handleError_propagating(m, c, thrown, answer, fault) ==
  IF config.hooks.onError /\ thrown \in {"Error", "hook"}
  THEN [m |-> [m EXCEPT !.calls[c].hooks =
                  Append(@, [Ran("onError", "global", Undefined, fault) EXCEPT
                               !.returned = IF fault = Fault("onError", "global")
                                            THEN "nothing" ELSE answer])],
        result |-> ThrownBy(IF fault = Fault("onError", "global") THEN "hook" ELSE thrown)]
  ELSE [m |-> m, result |-> ThrownBy(thrown)]

\* handleError: hooks.onError is called for an Error only, and what it
\* returns is the result
handleError(m, c, thrown, answer, fault) ==
  LET threw == fault = Fault("onError", "global")
      m1 == [m EXCEPT !.calls[c].hooks =
               Append(@, [Ran("onError", "global", Undefined, fault) EXCEPT
                            !.returned = IF threw THEN "nothing" ELSE answer])]
  IN IF config.hooks.onError /\ thrown \in {"Error", "hook"}
     THEN IF threw THEN [m |-> m1, result |-> ThrownBy("hook")]
          ELSE IF answer = "retry"
          THEN [m |-> createRetryHelper(m1, c), result |-> Retrying]
          ELSE [m |-> m1,
                result |-> CASE answer = "fallback" -> Resolved("fallback")
                             [] answer = "undefined" -> Resolved("undefined")
                             [] answer = "rethrow" -> ThrownBy(thrown)]
     ELSE [m |-> m, result |-> ThrownBy(thrown)]

\* The part of executeCore between waitForRateLimit and the wrapped function:
\* the before hooks, then fn.apply(target, args), unless a before hook threw.
invokeMethod(m, c, fault) ==
  LET b == runBeforeHook(m, c, fault)
      p == runPluginsBefore(b.m, c, fault)
  IN IF b.threw THEN b
     ELSE IF p.threw THEN p
     ELSE [m |-> fnApply([p.m EXCEPT !.calls[c].pc = "invoked"], c, p.m.calls[c].args),
           threw |-> FALSE]

\* the catch block of runMethodWithPlugins for what was thrown inside the try
\* block: by the wrapped function ("Error", or "value" for anything that is
\* not an Error) or by an after hook ("hook")
catchBlock(m, c, thrown, fallback, fault) ==
  LET e == IF thrown \in {"Error", "hook"} THEN runPluginsOnError(m, c, fault)
           ELSE [m |-> m, threw |-> FALSE]
  IN IF e.threw THEN [m |-> e.m, result |-> ThrownBy("hook")]
     ELSE handleError(e.m, c, thrown, fallback, fault)

\* runMethodWithPlugins once the wrapped function has settled: settled tells
\* how ("returns", "Error", "value"), fallback what hooks.onError does (see
\* Answers).  The result is the machine and the promise of runMethodWithPlugins.
runMethodWithPlugins(m, c, settled, fallback, fault) ==
  LET m0 == [m EXCEPT !.calls[c].fnResult = settled]
  IN IF settled = "returns"
     THEN LET a == runPluginsAfter(m0, c, fault)
              g == runAfterHook(a.m, c, fault)
          IN IF a.threw THEN catchBlock(a.m, c, "hook", fallback, fault)
             ELSE IF g.threw THEN catchBlock(g.m, c, "hook", fallback, fault)
             ELSE [m |-> g.m, result |-> Resolved("result")]
     ELSE catchBlock(m0, c, settled, fallback, fault)

\* a finally block that counts the calls of the root view only
emitCompletion_rootOnly(m, c, t) ==
  LET m1 == emitEvent(IF m.calls[c].view = RootView
                      THEN updateStats(m, t - m.calls[c].startTime) ELSE m,
                      c, "completed")
  IN IF emitThrows("completed") THEN m1
     ELSE IF IsDefined(m1.rateLimiter)
     THEN [m1 EXCEPT !.rateLimiter =
             Some(decrementConcurrent(Val(m1.rateLimiter), m1.calls[c].path))]
     ELSE m1

\* emitCompletion at time t: the machine, and whether a handler threw
emitCompletion(m, c, t) ==
  LET latencyMs == t - m.calls[c].startTime
      m1 == emitEvent(updateStats(m, latencyMs), c, "completed")
  IN IF emitThrows("completed") THEN m1
     ELSE IF IsDefined(m1.rateLimiter)
     THEN [m1 EXCEPT !.rateLimiter =
             Some(decrementConcurrent(Val(m1.rateLimiter), m1.calls[c].path))]
     ELSE m1

\* a chain in which the late result of the executor replaces the outcome
settleCore_overwriting(m, c, result, t) ==
  [m EXCEPT !.calls[c].pc = "finished", !.calls[c].outcome = result]

\* a chain that gives the slot back a second time when the executor of a
\* request that timed out settles
settleCore_releasingAgain(m, c, result, t) ==
  LET m1 == [m EXCEPT !.calls[c].pc = "finished"]
      state == Val(m1.queueState)
  IN IF m.calls[c].slot = "none" THEN [m1 EXCEPT !.calls[c].outcome = result]
     ELSE processNext(
            [m1 EXCEPT !.calls[c].outcome = IF m.calls[c].slot = "released" THEN @ ELSE result,
                       !.calls[c].slot = "released",
                       !.calls[c].qDue = Undefined,
                       !.queueState =
                          Some([state EXCEPT !.running = IF @ > 0 THEN @ - 1 ELSE 0])],
            t)

\* a chain whose finally gives the slot back and does not call processNext
settleCore_withoutNext(m, c, result, t) ==
  LET m1 == [m EXCEPT !.calls[c].pc = "finished"]
  IN IF m.calls[c].slot = "none" THEN [m1 EXCEPT !.calls[c].outcome = result]
     ELSE IF m.calls[c].slot = "released" THEN m1
     ELSE [m1 EXCEPT !.calls[c].outcome = result,
                     !.calls[c].slot = "released",
                     !.calls[c].qDue = Undefined,
                     !.queueState = Some([Val(m1.queueState) EXCEPT !.running = @ - 1])]

\* The promise of executeCore(c) has settled with result: the caller of a call
\* that went around the queue gets it; for a queued request the chain of
\* processNext resolves or rejects the request, unless its timeout came first,
\* then gives the slot back and calls processNext.
settleCore(m, c, result, t) ==
  LET m1 == [m EXCEPT !.calls[c].pc = "finished"]
  IN IF m.calls[c].slot = "none" THEN [m1 EXCEPT !.calls[c].outcome = result]
     ELSE IF m.calls[c].slot = "released" THEN m1
     ELSE LET state == Val(m1.queueState)
          IN processNext(
               [m1 EXCEPT !.calls[c].outcome = result,
                          !.calls[c].slot = "released",
                          !.calls[c].qDue = Undefined,
                          !.queueState = Some([state EXCEPT !.running = @ - 1])],
               t)

\* a clear() that rejects the running requests as well
clearQueue_everything(m) ==
  LET state == Val(m.queueState)
  IN [m EXCEPT !.queueState = Some([state EXCEPT !.queue = <<>>]),
               !.calls = [c \in DOMAIN m.calls |->
                            IF @[c].outcome = Pending /\ @[c].pc # "idle"
                            THEN [@[c] EXCEPT !.outcome = Rejected("Queue cleared", NoPath)]
                            ELSE @[c]]]

\* clearQueue
clearQueue(m) ==
  LET state == Val(m.queueState)
      cleared == {state.queue[i].call : i \in 1..Len(state.queue)}
  IN [m EXCEPT !.queueState = Some([state EXCEPT !.queue = <<>>]),
               !.calls = [c \in DOMAIN m.calls |->
                            IF c \in cleared
                            THEN [@[c] EXCEPT !.pc = "none",
                                              !.outcome = Rejected("Queue cleared", NoPath)]
                            ELSE @[c]]]

\* ------------------------------------------------- actions
\* The client code calls method methodPath through view: its c-th call.
Call(c, view, methodPath) ==
  /\ wrapped = Resolved("wrapper")
  /\ calls[c].pc = "idle"
  /\ \A d \in Calls : d < c => calls[d].pc # "idle"
  /\ IF plan = <<>> THEN c <= MaxCalls /\ UNCHANGED plan
     ELSE Planned(view, methodPath) = Head(plan) /\ plan' = Tail(plan)
  /\ Apply(executeWithHooks(Machine, c, view, methodPath, now))

\* The scripted client makes its next call.
CallPlanned(c) ==
  /\ plan # <<>>
  /\ Call(c, Head(plan).view, Head(plan).path)

\* The timer of waitForRateLimit fires: tryAcquire again.
Retry(c) ==
  /\ calls[c].pc = "waiting"
  /\ calls[c].denials < MaxDenials
  /\ calls[c].rlDue = Some(now)
  /\ Commit(waitForRateLimit(Machine, c, now))

\* an executeCore that runs the before hooks while the call still waits for
\* the rate limiter
InvokeWith_beforeAdmission(c, fault) ==
  /\ calls[c].pc \in {"admitted", "waiting"}
  /\ LET r == invokeMethod(Machine, c, fault)
     IN IF r.threw
        THEN Commit(settleCore(emitCompletion(r.m, c, now), c, ThrownBy("hook"), now))
        ELSE Commit(r.m)

\* executeCore goes on after waitForRateLimit: before hooks, then the call.
\* When a before hook throws, the finally block of executeCore runs and
\* executeCore rejects.
InvokeWith(c, fault) ==
  /\ calls[c].pc = "admitted"
  /\ LET r == invokeMethod(Machine, c, fault)
         result == IF emitThrows("completed") THEN Rejected("handler threw", NoPath)
                   ELSE ThrownBy("hook")
     IN IF r.threw
        THEN Commit(settleCore(emitCompletion(r.m, c, now), c, result, now))
        ELSE Commit(r.m)

Invoke(c) == InvokeWith(c, NoFault)

\* The wrapped function settles; the after or error hooks run, then the
\* finally block of executeCore, then the promise of executeCore settles.
SettleWith(c, settled, fallback, fault) ==
  /\ calls[c].pc = "invoked"
  /\ \E r \in {runMethodWithPlugins(Machine, c, settled, fallback, fault)} :
       LET result == IF emitThrows("completed") THEN Rejected("handler threw", NoPath)
                     ELSE r.result
       IN IF r.result = Retrying THEN Commit([r.m EXCEPT !.calls[c].pc = "retrying"])
          ELSE Commit(settleCore(emitCompletion(r.m, c, now), c, result, now))

\* the wrapped function returns or throws an Error, and no hook throws;
\* hooks.onError returns a fallback value or throws the error it was given
Settle(c, threw, fallback) ==
  SettleWith(c, IF threw THEN "Error" ELSE "returns",
             IF fallback THEN "fallback" ELSE "rethrow", NoFault)

\* The promise of retry() settles, and with it the promise of
\* runMethodWithPlugins; then the finally block of executeCore runs.
RetrySettle(c, settled) ==
  /\ calls[c].pc = "retrying"
  /\ LET m1 == emitCompletion(Machine, c, now)
         result == IF emitThrows("completed") THEN Rejected("handler threw", NoPath)
                   ELSE IF settled = "returns" THEN Resolved("result")
                   ELSE ThrownBy(settled)
     IN Commit(settleCore(m1, c, result, now))

\* A handler of rateLimited threw inside waitForRateLimit: the finally block of
\* executeCore runs and executeCore rejects.
Unwind(c) ==
  /\ calls[c].pc = "waitThrew"
  /\ Commit(settleCore(emitCompletion(Machine, c, now), c,
                       Rejected("handler threw", NoPath), now))

\* A handler of executing threw before the try block: executeCore rejects.
Abort(c) ==
  /\ calls[c].pc = "coreThrew"
  /\ Commit(settleCore(Machine, c, Rejected("handler threw", NoPath), now))

\* The timer of executeWithTimeout fires before the request has settled.
Timeout(c) ==
  /\ calls[c].slot = "held"
  /\ calls[c].qDue = Some(now)
  /\ LET state == Val(queueState)
     IN Commit(processNext(
          [Machine EXCEPT !.calls[c].outcome = Rejected("Request timed out", NoPath),
                          !.calls[c].slot = "released",
                          !.calls[c].qDue = Undefined,
                          !.queueState = Some([state EXCEPT !.running = @ - 1])],
          now))

\* queue.pause(), queue.resume(), queue.clear(): without a queue they do nothing
Pause ==
  /\ queueState' = IF IsDefined(queueState)
                   THEN Some([Val(queueState) EXCEPT !.paused = TRUE]) ELSE queueState
  /\ UNCHANGED <<now, config, rateLimiter, listeners, stats, calls, dispatched, plan,
               wrapped, views, delivery, got>>

Resume ==
  IF IsDefined(queueState)
  THEN Commit(processNext(
         [Machine EXCEPT !.queueState = Some([Val(queueState) EXCEPT !.paused = FALSE])],
         now))
  ELSE UNCHANGED vars

Clear ==
  IF IsDefined(queueState) THEN Commit(clearQueue(Machine)) ELSE UNCHANGED vars

\* on(event, handler) and off(event, handler)
On(event, handler) ==
  /\ listeners' = [listeners EXCEPT ![event] = @ \cup {handler}]
  /\ UNCHANGED <<now, config, queueState, rateLimiter, stats, calls, dispatched, plan,
               wrapped, views, delivery, got>>

Off(event, handler) ==
  /\ listeners' = [listeners EXCEPT ![event] = @ \ {handler}]
  /\ UNCHANGED <<now, config, queueState, rateLimiter, stats, calls, dispatched, plan,
               wrapped, views, delivery, got>>

\* A handler that is told apart from the others by what it does when it is
\* called: it returns, throws, registers the handler "late" (on), removes the
\* handler "returns" or removes itself (off), all for the event it is called for.
NamedHandlers == Handlers \cup {"addsLate", "removesReturns", "removesSelf", "late"}

\* The entries of a Set while it is iterated, in insertion order; delete
\* leaves a hole, which the iterator skips, and add appends.
Empty == "empty"
Live(entries) == {entries[i] : i \in DOMAIN entries} \ {Empty}
setAdd(entries, handler) ==
  IF handler \in Live(entries) THEN entries ELSE Append(entries, handler)
setDelete(entries, handler) ==
  [i \in DOMAIN entries |-> IF entries[i] = handler THEN Empty ELSE entries[i]]

\* handler(data): what the call does to the Set of the event
callHandler(handler, entries) ==
  CASE handler = "addsLate" -> setAdd(entries, "late")
    [] handler = "removesReturns" -> setDelete(entries, "returns")
    [] handler = "removesSelf" -> setDelete(entries, handler)
    [] OTHER -> entries

\* emitEvent: for (const handler of handlers) handler(data), over the Set
\* itself; a handler that throws ends the loop
RECURSIVE emitLoop(_, _, _)
emitLoop(entries, index, called) ==
  IF index > Len(entries) THEN [entries |-> entries, called |-> called, threw |-> FALSE]
  ELSE IF entries[index] = Empty THEN emitLoop(entries, index + 1, called)
  ELSE IF entries[index] = "throws"
  THEN [entries |-> entries, called |-> Append(called, "throws"), threw |-> TRUE]
  ELSE emitLoop(callHandler(entries[index], entries), index + 1,
                Append(called, entries[index]))

\* the orders in which the handlers of a set can have been registered
InsertionOrders(handlers) ==
  {order \in [1..Cardinality(handlers) -> handlers] :
     \A i, j \in DOMAIN order : order[i] = order[j] => i = j}

\* emitEvent(state, event, data) with handlers that are told apart
Emit(event) ==
  /\ wrapped = Resolved("wrapper")
  /\ \E entries \in InsertionOrders(listeners[event]) :
       LET r == emitLoop(entries, 1, <<>>)
       IN /\ listeners' = [listeners EXCEPT ![event] = Live(r.entries)]
          /\ delivery' = Some([event |-> event, registered |-> entries,
                               called |-> r.called, threw |-> r.threw])
  /\ UNCHANGED <<now, config, queueState, rateLimiter, stats, calls, dispatched, plan,
                 wrapped, views, got>>

\* The timers that are set and have not fired.
PendingTimers ==
  {Val(calls[c].rlDue) : c \in {d \in Calls : calls[d].pc = "waiting"}}
  \cup {Val(calls[c].qDue) : c \in {d \in Calls : calls[d].slot = "held"
                                                  /\ IsDefined(calls[d].qDue)}}

\* Time passes: Date.now() grows by d ms up to limit; no timer is overrun.
Tick(d, limit) ==
  /\ d > 0
  /\ now + d <= limit
  /\ \A due \in PendingTimers : now + d <= due
  /\ now' = now + d
  /\ UNCHANGED <<config, queueState, rateLimiter, listeners, stats, calls, dispatched, plan,
               wrapped, views, delivery, got>>

\* wrap(client, cfg) has returned
InitWith(cfg, script) ==
  /\ validateConfig(cfg)
  /\ now = 0
  /\ config = cfg
  /\ queueState = createInitialState(cfg).queueState
  /\ rateLimiter = createInitialState(cfg).rateLimiter
  /\ stats = createInitialState(cfg).stats
  /\ listeners = createInitialState(cfg).listeners
  /\ calls = [c \in 1..(IF Len(script) > MaxCalls THEN Len(script) ELSE MaxCalls) |->
                NewCall]
  /\ dispatched = <<>>
  /\ plan = script
  /\ wrapped = Resolved("wrapper")
  /\ views = <<RootView>>
  /\ delivery = Undefined
  /\ got = Undefined

\* Before wrap(client, cfg) is called: there is no wrapper state yet.
BeforeWrap(cfg, script) ==
  /\ now = 0
  /\ config = cfg
  /\ queueState = Undefined
  /\ rateLimiter = Undefined
  /\ stats = createInitialState(cfg).stats
  /\ listeners = createInitialState(cfg).listeners
  /\ calls = [c \in 1..(IF Len(script) > MaxCalls THEN Len(script) ELSE MaxCalls) |->
                NewCall]
  /\ dispatched = <<>>
  /\ plan = script
  /\ wrapped = Pending
  /\ views = <<>>
  /\ delivery = Undefined
  /\ got = Undefined

ConfigurationError == Rejected("Cannot specify both allowlist and blocklist", NoPath)

\* wrap(client, config): validateConfig, then createInitialState and the
\* proxy of the root view
Wrap ==
  /\ wrapped = Pending
  /\ IF validateConfig(config)
     THEN /\ wrapped' = Resolved("wrapper")
          /\ views' = <<RootView>>
          /\ queueState' = createInitialState(config).queueState
          /\ rateLimiter' = createInitialState(config).rateLimiter
          /\ stats' = createInitialState(config).stats
          /\ listeners' = createInitialState(config).listeners
          /\ UNCHANGED <<now, config, calls, dispatched, plan, delivery, got>>
     ELSE /\ wrapped' = ConfigurationError
          /\ UNCHANGED <<now, config, queueState, rateLimiter, listeners, stats, calls,
                         dispatched, plan, views, delivery, got>>

\* an amount by which the clock is seen to advance between two timers
TimeSteps == {250}
NextTimer == {due - now : due \in {x \in PendingTimers : x > now}}

\* a use() that pushes the plugin onto the plugin list of the view it is
\* called on
use_pushing(held, v, plugin) ==
  Append([held EXCEPT ![v] = createUse(@, plugin)], createUse(held[v], plugin))

\* view.use(plugin) on the v-th of the views held: the views held afterwards
use(held, v, plugin) == Append(held, createUse(held[v], plugin))

\* view.withOptions(opts) on the v-th of the views held
withOptions(held, v, opts) == Append(held, createWithOptions(held[v], opts))

\* The client code derives a view from the v-th view it holds.
Use(v, plugin, limit) ==
  /\ wrapped = Resolved("wrapper")
  /\ v \in 1..Len(views) /\ Len(views) < limit
  /\ views' = use(views, v, plugin)
  /\ UNCHANGED <<now, config, queueState, rateLimiter, listeners, stats, calls,
                 dispatched, plan, wrapped, delivery, got>>

WithOptions(v, opts, limit) ==
  /\ wrapped = Resolved("wrapper")
  /\ v \in 1..Len(views) /\ Len(views) < limit
  /\ views' = withOptions(views, v, opts)
  /\ UNCHANGED <<now, config, queueState, rateLimiter, listeners, stats, calls,
                 dispatched, plan, wrapped, delivery, got>>

\* The client code calls a method through the v-th view it holds.
CallThrough(c, v, methodPath) ==
  /\ v \in 1..Len(views)
  /\ Call(c, views[v], methodPath)

\* ------------------------------------------------- the queue alone
\* wrap(client, {queue: {concurrency, timeout}}); the client code calls one
\* method through views that set a priority, and drives the queue control.
QueueTimeoutMs == 50
QueueConfigs ==
  { WrapConfig(NoHooks, Undefined, Some(QueueConfig(Some(cc), timeout, Undefined)),
               Undefined, Undefined) :
      cc \in 1..2, timeout \in {Undefined, Some(QueueTimeoutMs)} }
PriorityView(p) ==
  createWithOptions(RootView, PerCallOptions(Some(p), Undefined, Undefined))
QueueViews == { PriorityView(p) : p \in Priorities }
\* the calls of the test "should process high priority requests first"
PriorityScript ==
  << Planned(PriorityView("normal"), <<"f">>), Planned(PriorityView("low"), <<"f">>),
     Planned(PriorityView("high"), <<"f">>), Planned(PriorityView("critical"), <<"f">>) >>

PriorityTestConfig ==
  WrapConfig(NoHooks, Undefined, Some(QueueConfig(Some(1), Undefined, Undefined)),
             Undefined, Undefined)

\* the calls of the test "should reject when queue is full", all of normal
\* priority
QueueMaxSize == 2
SizeTestConfig ==
  WrapConfig(NoHooks, Undefined, Some(QueueConfig(Some(1), Undefined, Some(QueueMaxSize))),
             Undefined, Undefined)
SizeScript == [i \in 1..4 |-> Planned(PriorityView("normal"), <<"f">>)]

InitQueue ==
  \/ \E cfg \in QueueConfigs : InitWith(cfg, <<>>)
  \/ InitWith(PriorityTestConfig, PriorityScript)
  \/ InitWith(SizeTestConfig, SizeScript)
NextQueue ==
  \/ \E c \in Calls, view \in QueueViews : Call(c, view, <<"f">>)
  \/ \E c \in Calls : Invoke(c)
  \/ \E c \in Calls, threw \in BOOLEAN : Settle(c, threw, FALSE)
  \/ \E c \in Calls : Timeout(c)
  \/ Pause
  \/ Resume
  \/ Clear
  \/ \E d \in NextTimer : Tick(d, MaxQueueTime)
SpecQueue == InitQueue /\ [][NextQueue]_vars

\* ------------------------------------------------- properties of the queue
Queue == Val(queueState)
HasCap == IsDefined(queueState) /\ IsDefined(Queue.config.concurrency)
Cap == Val(Queue.config.concurrency)

\* C2: whatever enqueues, dispatches, settles, timeouts, pause(), resume() and
\* clear() have been done on a queue, 0 <= running <= config.concurrency.
C2_RunningWithinConcurrency ==
  IsDefined(queueState) =>
    /\ Queue.running >= 0
    /\ IsDefined(Queue.config.concurrency) => Queue.running <= Cap

\* The queue is full of running requests while a request waits, after a
\* request has timed out and the queue has been paused and resumed.
C2_Witness ==
  /\ HasCap /\ Queue.running = Cap
  /\ \E c \in Calls : calls[c].outcome = Rejected("Request timed out", NoPath)
  /\ \E c \in Calls : calls[c].pc = "invoked" /\ calls[c].slot = "held"

\* critical > high > normal > low
Outranks ==
  { <<"critical", "high">>, <<"critical", "normal">>, <<"critical", "low">>,
    <<"high", "normal">>, <<"high", "low">>, <<"normal", "low">> }
\* request a is to be dispatched before request b
GoesBefore(a, b) ==
  \/ <<a.priority, b.priority>> \in Outranks
  \/ a.priority = b.priority /\ a.id < b.id

\* A step that dispatches a request dispatches one that goes before every
\* request it leaves in the queue.
DispatchesTheBest ==
  Len(dispatched') > Len(dispatched) =>
    LET request == dispatched'[Len(dispatched')]
        queue == Val(queueState').queue
    IN /\ Len(dispatched') = Len(dispatched) + 1
       /\ \A i \in 1..Len(queue) : GoesBefore(request, queue[i])

PrioritiesOf(log) == [i \in 1..Len(log) |-> log[i].priority]
IsPrefix(a, b) == Len(a) <= Len(b) /\ a = SubSeq(b, 1, Len(a))

\* The four calls of the script were all queued when the first was dispatched.
ScriptedAndQueuedTogether ==
  /\ Len(calls) = Len(PriorityScript)
  /\ \A c \in 1..Len(PriorityScript) : calls[c].view = PriorityScript[c].view
  /\ Len(dispatched) > 0
  /\ dispatched[1].left = Len(PriorityScript) - 1

\* Priorities [normal, low, high, critical] enqueued while paused are
\* dispatched, after resume(), in the order critical, high, normal, low.
ScriptedOrder ==
  ScriptedAndQueuedTogether =>
    IsPrefix(PrioritiesOf(dispatched), <<"critical", "high", "normal", "low">>)

\* C3: the request the queue dispatches has the highest priority among the
\* requests then queued (critical > high > normal > low) and, among those, the
\* smallest id; so [normal, low, high, critical] enqueued while paused run
\* after resume() in the order critical, high, normal, low.
C3_DispatchByPriorityThenArrival == [][DispatchesTheBest]_vars /\ []ScriptedOrder

\* The scripted run has dispatched all four requests.
C3_Witness == ScriptedAndQueuedTogether /\ Len(dispatched) = Len(PriorityScript)

\* C4: after a call, a settle or resume() has run the admission loop, the
\* queue is never unpaused and non-empty with running < concurrency.
C4_NoIdleSlotWhileQueued ==
  HasCap => ~(~Queue.paused /\ Len(Queue.queue) > 0 /\ Queue.running < Cap)

\* ------------------------------------------------- the rate limiter alone
\* wrap(client, {rateLimit}); the client code calls two methods through the
\* root view and may register handlers of rateLimited.
Rps(n) == RateConfig(Some(Fin(n)), Undefined, Undefined)
RateLimits ==
  { Rps(2),
    RateConfig(Undefined, Some(Fin(90)), Undefined),
    RateConfig(Some(Fin(1000)), Undefined, Some(Fin(1))),
    RateConfig(Undefined, Undefined, Some(Fin(1))),
    PerMethodConfig(Undefined,
                    Some([p \in Paths |-> IF p = <<"s">> THEN Some(Rps(1)) ELSE Undefined])),
    PerMethodConfig(Some(Rps(2)),
                    Some([p \in Paths |-> IF p = <<"s">> THEN Some(Rps(1)) ELSE Undefined])) }
RateConfigs ==
  { WrapConfig(NoHooks, Some(rl), Undefined, Undefined, Undefined) : rl \in RateLimits }
RatePaths == { <<"f">>, <<"s">> }
\* the calls of the test "should delay requests that exceed the rate limit"
RateTestConfig == WrapConfig(NoHooks, Some(Rps(2)), Undefined, Undefined, Undefined)
RateScript == [i \in 1..4 |-> Planned(RootView, <<"f">>)]

\* three calls of one method under a cap of one call in flight
CapTestConfig ==
  WrapConfig(NoHooks, Some(RateConfig(Some(Fin(1000)), Undefined, Some(Fin(1)))),
             Undefined, Undefined, Undefined)
CapScript == [i \in 1..3 |-> Planned(RootView, <<"f">>)]

InitRate ==
  \/ \E cfg \in RateConfigs : InitWith(cfg, <<>>)
  \/ InitWith(RateTestConfig, RateScript)
  \/ InitWith(CapTestConfig, CapScript)
NextRate ==
  \/ \E c \in Calls, p \in RatePaths : Call(c, RootView, p)
  \/ \E c \in Calls : Retry(c)
  \/ \E c \in Calls : Invoke(c)
  \/ \E c \in Calls : Settle(c, FALSE, FALSE)
  \/ \E c \in Calls : Unwind(c)
  \/ On("rateLimited", "throws")
  \/ \E d \in NextTimer \cup TimeSteps : Tick(d, MaxTime)
SpecRate == InitRate /\ [][NextRate]_vars

Limiter == Val(rateLimiter)
\* the calls of path p between admission and settle
InFlight(p) ==
  {c \in Calls : calls[c].path = p /\ calls[c].admitted /\ calls[c].pc # "finished"}
RateCap(p) == concurrencyCap(Limiter, p)

\* C5: for a path with a rate-limit concurrency cap, at most that many calls
\* of the path are between admission and settle at any time.
C5_InFlightWithinCap ==
  IsDefined(rateLimiter) =>
    \A p \in Paths :
      IsDefined(RateCap(p)) => Cardinality(InFlight(p)) <= Val(RateCap(p)).v

\* C6: the in-flight count of every path equals the number of calls of the
\* path that tryAcquire admitted and that have not settled yet.
C6_CountIsAdmittedUnsettled ==
  IsDefined(rateLimiter) =>
    \A p \in Paths : Limiter.concurrentCount[p] = Cardinality(InFlight(p))

\* C7: every stored token bucket has 0 <= tokens <= maxTokens.
C7_TokensWithinBounds ==
  IsDefined(rateLimiter) =>
    \A p \in Paths :
      IsDefined(Limiter.buckets[p]) =>
        LET bucket == Val(Limiter.buckets[p])
        IN NumGeq(bucket.tokens, Fin(0)) /\ NumGeq(bucket.maxTokens, bucket.tokens)

\* the config that applies to p has neither requestsPerSecond nor requestsPerMinute
UnboundedRate(p) ==
  LET methodConfig == getConfigForMethod(Limiter.config, p)
  IN \/ ~IsDefined(methodConfig)
     \/ /\ ~IsDefined(Val(methodConfig).requestsPerSecond)
        /\ ~IsDefined(Val(methodConfig).requestsPerMinute)

\* tryAcquire turns call c away in this step
Denied(c) == calls'[c].denials > calls[c].denials

\* C8: on a path whose rate is unbounded, an acquisition attempt is turned
\* away only by the concurrency cap: the in-flight count is at the cap.
C8_UnboundedRateAdmits ==
  [][\A c \in Calls :
       (IsDefined(rateLimiter) /\ Denied(c) /\ UnboundedRate(calls'[c].path)) =>
         LET p == calls'[c].path
         IN IsDefined(RateCap(p))
            /\ NumGeq(Fin(Limiter.concurrentCount[p]), Val(RateCap(p)))]_vars

\* p is limited to a whole number of requests per second and has no cap
PlainRate(p) ==
  /\ IsDefined(rateLimiter)
  /\ LET methodConfig == getConfigForMethod(Limiter.config, p)
     IN /\ IsDefined(methodConfig)
        /\ Truthy(Val(methodConfig).requestsPerSecond)
        /\ ~IsDefined(Val(methodConfig).concurrency)
RateOf(p) == Val(Val(getConfigForMethod(Limiter.config, p)).requestsPerSecond).v
Made(p) == {c \in Calls : calls[c].pc # "idle" /\ calls[c].path = p}
IssuedTogether(p) == \A c \in Made(p) : calls[c].startTime = 0
AdmittedAt(p, t) == {c \in Made(p) : calls[c].admitted /\ calls[c].admitTime = t}
AdmittedBefore(p, t) == {c \in Made(p) : calls[c].admitted /\ calls[c].admitTime < t}

\* C9: when the calls of a path limited to r requests per second are issued
\* together against the fresh bucket, the first r are admitted at once and the
\* k-th admission after them happens k * 1000 / r ms after the start.  With
\* r = 2 the four admissions are at 0, 0, 500 and 1000 ms.
C9_AdmissionTimes ==
  \A p \in Paths :
    (PlainRate(p) /\ IssuedTogether(p)) =>
      LET r == RateOf(p)
      IN /\ Cardinality(AdmittedAt(p, 0)) <= r
         /\ \A c \in Made(p) :
              ~(calls[c].admitted /\ calls[c].admitTime = 0) =>
                Cardinality(AdmittedAt(p, 0)) = r
         /\ \A c \in Made(p) :
              (calls[c].admitted /\ calls[c].admitTime > 0) =>
                LET t == calls[c].admitTime
                    k == (t * r) \div MsPerSecond
                IN /\ t * r = k * MsPerSecond
                   /\ Cardinality(AdmittedAt(p, t)) = 1
                   /\ Cardinality(AdmittedBefore(p, t)) = r + k - 1

\* The four calls of the test were issued together and are all admitted: two
\* at 0 ms, one at 500 ms and one at 1000 ms.
C9_Witness ==
  /\ config = RateTestConfig
  /\ Len(calls) = Len(RateScript)
  /\ IssuedTogether(<<"f">>)
  /\ Cardinality(AdmittedAt(<<"f">>, 0)) = 2
  /\ Cardinality(AdmittedAt(<<"f">>, 500)) = 1
  /\ Cardinality(AdmittedAt(<<"f">>, 1000)) = 1

\* ------------------------------------------------- the whole pipeline
\* wrap(client, {hooks, rateLimit, queue, allowlist | blocklist}); the client
\* code calls three methods through the root view, a view that skips the queue
\* and a view with a plugin, drives the queue control and registers handlers.
AccessLists ==
  { [allowlist |-> Some(<< <<"f">>, <<"c", ".", "*">> >>), blocklist |-> Undefined],
    [allowlist |-> Undefined, blocklist |-> Some(<< <<"s">> >>)] }
Configs ==
  { WrapConfig(AllHooks, Some(Rps(1)), queue, lists.allowlist, lists.blocklist) :
      queue \in {Undefined, Some(QueueConfig(Some(1), Undefined, Undefined))},
      lists \in AccessLists }
SkipQueueView ==
  createWithOptions(RootView, PerCallOptions(Undefined, Undefined, Some(TRUE)))
PluginView == createUse(RootView, Plugin("plugin", TRUE, TRUE, TRUE))
Views == {RootView, SkipQueueView, PluginView}

Init == \E cfg \in Configs : InitWith(cfg, <<>>)
Next ==
  \/ \E c \in Calls, view \in Views, p \in Paths : Call(c, view, p)
  \/ \E c \in Calls : Retry(c)
  \/ \E c \in Calls : Invoke(c)
  \/ \E c \in Calls, threw \in BOOLEAN : Settle(c, threw, FALSE)
  \/ \E c \in Calls : Abort(c)
  \/ Pause
  \/ Resume
  \/ Clear
  \/ On("executing", "throws")
  \/ Off("executing", "throws")
  \/ \E d \in NextTimer : Tick(d, MaxTime)
Spec == Init /\ [][Next]_vars

\* access control denies path p
AccessDenied(p) == ~checkAccess(p, config.allowlist, config.blocklist).isAllowed
DenialReason(p) == checkAccess(p, config.allowlist, config.blocklist).reason
\* the client code makes call c in this step
Makes(c) == calls[c].pc = "idle" /\ calls'[c].pc # "idle"

\* The step that makes a denied call rejects it with the denial reason and
\* changes nothing else: queue, limiter, stats and the other calls stay as
\* they are, and the call itself has emitted nothing and run no hook.
DenialChangesNothing ==
  \A c \in Calls :
    (Makes(c) /\ AccessDenied(calls'[c].path)) =>
      /\ calls'[c] = [NewCall EXCEPT
                        !.pc = "none", !.path = calls'[c].path, !.view = calls'[c].view,
                        !.callTime = now,
                        !.outcome = Rejected(DenialReason(calls'[c].path)[1],
                                             calls'[c].path)]
      /\ calls'[c].outcome.why[1] \in {"blocked", "not allowed"}
      /\ \A d \in Calls \ {c} : calls'[d] = calls[d]
      /\ UNCHANGED <<queueState, rateLimiter, stats, listeners, dispatched>>

\* A denied call never gets any further: it is not enqueued, not admitted by
\* the limiter, not invoked, and has no event and no hook to its name.
DeniedCallsStayInert ==
  \A c \in Calls :
    (calls[c].pc # "idle" /\ AccessDenied(calls[c].path)) =>
      /\ calls[c].pc = "none"
      /\ calls[c].outcome.st = "rejected"
      /\ calls[c].emitted = <<>> /\ calls[c].hooks = <<>> /\ calls[c].invoked = 0
      /\ ~calls[c].admitted /\ calls[c].requestId = Undefined /\ calls[c].slot = "none"

\* C1: a call whose path access control denies fails with the denial reason
\* and nothing else happens: nothing is enqueued, no token is consumed, no
\* counter changes, no hook runs, the method is not invoked, no event is
\* emitted and the stats are unchanged.
C1_DeniedCallHasNoEffect == [][DenialChangesNothing]_vars /\ []DeniedCallsStayInert

\* A call was denied after an earlier call had been enqueued, which is still
\* waiting in the paused queue.
C1_Witness ==
  \E c, d \in Calls :
    /\ d < c
    /\ calls[d].pc = "queued" /\ Len(Val(queueState).queue) = 1
    /\ calls[c].pc = "none" /\ AccessDenied(calls[c].path)
    /\ calls[c].outcome = Rejected("not allowed", <<"s">>)

\* the view of call c sets skipQueue
SkipsQueue(c) ==
  /\ IsDefined(calls[c].view.perCallOptions)
  /\ Val(calls[c].view.perCallOptions).skipQueue = Some(TRUE)

\* C10: a call made through a view with skipQueue is never added to the
\* queue and never counts in runningCount.
C10_SkipQueueBypassesQueue ==
  \A c \in Calls :
    (calls[c].pc # "idle" /\ SkipsQueue(c)) =>
      calls[c].requestId = Undefined /\ calls[c].slot = "none"

\* ------------------------------------------------- more properties of the queue
TimedOut(c) == calls[c].outcome = Rejected("Request timed out", NoPath)

\* The step in which the timer of a dispatched request wins: it comes
\* config.timeout ms after the dispatch, gives the slot back and leaves the
\* executor where it stands.
TimeoutReleasesSlotOnly ==
  \A c \in Calls :
    (~TimedOut(c) /\ TimedOut(c)') =>
      /\ now = calls[c].startTime + Val(Queue.config.timeout)
      /\ calls[c].outcome = Pending
      /\ calls[c].slot = "held" /\ calls'[c].slot = "released"
      /\ calls'[c].pc = calls[c].pc /\ calls'[c].invoked = calls[c].invoked
      /\ Queue'.running = Queue.running - 1 + (Len(dispatched') - Len(dispatched))
\* What the caller was told stays, whatever the executor does later.
TimedOutStays ==
  \A c \in Calls : TimedOut(c) => calls'[c].outcome = calls[c].outcome

\* C12: a dispatched request that has not settled config.timeout ms after its
\* dispatch is rejected with "Request timed out" and its slot is released;
\* the executor is not cancelled, and its later result or error does not
\* change the outcome the caller got.
C12_TimeoutDoesNotCancel == [][TimeoutReleasesSlotOnly /\ TimedOutStays]_vars

\* A request timed out, and its executor then invoked the method and ran to
\* completion, later than the timeout.
C12_Witness ==
  \E c \in Calls :
    /\ TimedOut(c) /\ calls[c].slot = "released"
    /\ calls[c].pc = "finished" /\ calls[c].invoked = 1
    /\ now >= calls[c].startTime + QueueTimeoutMs
    /\ \E i \in 1..Len(stats.latencies) : stats.latencies[i] >= QueueTimeoutMs

Cleared(c) == calls[c].outcome = Rejected("Queue cleared", NoPath)
\* the calls whose requests are queued and not running
Waiting == {Queue.queue[i].call : i \in 1..Len(Queue.queue)}

\* A step that empties a queue that held requests rejects exactly these with
\* "Queue cleared" and leaves every other call and the running count alone.
\* (Only clear() empties a queue of several requests at once or without a
\* dispatch.)
ClearRejectsTheWaiting ==
  (Len(Queue.queue) > 0 /\ Len(Queue'.queue) = 0 /\ dispatched' = dispatched) =>
    /\ \A c \in Waiting : Cleared(c)' /\ calls'[c].invoked = 0 /\ calls[c].slot = "none"
    /\ \A c \in Calls \ Waiting : calls'[c] = calls[c]
    /\ Queue'.running = Queue.running
\* A cleared request stays cleared, and its method is never invoked.
ClearedNeverRuns ==
  \A c \in Calls :
    Cleared(c) => Cleared(c)' /\ calls'[c].invoked = 0 /\ calls'[c].slot = "none"

\* C13: clear() rejects every queued, not running request with "Queue
\* cleared" and leaves the queue empty; the method of a cleared request is
\* never invoked, and the running requests are unaffected.
C13_ClearRejectsQueuedOnly == [][ClearRejectsTheWaiting /\ ClearedNeverRuns]_vars

\* After a clear() that rejected a queued request, the request that was
\* running at the time has settled with its real result.
C13_Witness ==
  \E c, d \in Calls :
    /\ c < d /\ Cleared(d) /\ calls[d].requestId # Undefined
    /\ Len(Queue.queue) = 0
    /\ calls[c].outcome = Resolved("result") /\ calls[c].invoked = 1
    /\ calls[c].slot = "released"

\* While the queue stays paused nothing is dispatched: the running count does
\* not grow and no queued request leaves the queue except by clear().
PausedDispatchesNothing ==
  (Queue.paused /\ Queue'.paused) =>
    /\ dispatched' = dispatched
    /\ Queue'.running <= Queue.running
    /\ \A c \in Calls : calls[c].pc = "queued" =>
         /\ calls'[c].pc \in {"queued", "none"}
         /\ calls'[c].invoked = 0
\* pause() itself touches no call.
PauseTouchesNoCall == (~Queue.paused /\ Queue'.paused) => calls' = calls

\* C14: between pause() and the next resume() no queued request is
\* dispatched, whatever is enqueued or settles meanwhile; the requests that
\* were running at pause() are unaffected.
C14_PausedQueueDispatchesNothing ==
  [][PausedDispatchesNothing /\ PauseTouchesNoCall]_vars

\* The queue is paused with a request waiting and a free slot: the request
\* that was running at pause() has settled with its real result meanwhile.
C14_Witness ==
  /\ Queue.paused /\ Len(Queue.queue) > 0 /\ Queue.running = 0
  /\ \E c \in Calls : /\ calls[c].outcome = Resolved("result")
                      /\ calls[c].slot = "released"
                      /\ \E d \in Waiting : c < d

HasMaxSize == IsDefined(queueState) /\ IsDefined(Queue.config.maxSize)
Full(c) == calls[c].outcome = Rejected("Queue is full", NoPath)

\* A call made on a wrapper with a queue is rejected with "Queue is full"
\* exactly when maxSize or more requests are queued at that moment, the
\* running ones not counted; the rejected call leaves the queue as it was.
FullExactlyAtMaxSize ==
  \A c \in Calls :
    (IsDefined(queueState) /\ Makes(c)) =>
      /\ Full(c)' <=> (HasMaxSize /\ Len(Queue.queue) >= Val(Queue.config.maxSize))
      /\ Full(c)' => /\ queueState' = queueState
                     /\ calls'[c].requestId = Undefined
                     /\ calls'[c].pc = "none"
QueueWithinMaxSize == HasMaxSize => Len(Queue.queue) <= Val(Queue.config.maxSize)

\* C15: an enqueue is rejected with "Queue is full" exactly when the number
\* of queued requests is at or above maxSize; a rejected request is not added
\* to the queue, running requests do not count, and the queue is never longer
\* than maxSize.
C15_QueueFullAtMaxSize == [][FullExactlyAtMaxSize]_vars /\ []QueueWithinMaxSize

\* One request runs and maxSize requests wait, all accepted; the next call
\* was rejected with "Queue is full".
C15_Witness ==
  /\ HasMaxSize /\ Queue.running = 1
  /\ Len(Queue.queue) = Val(Queue.config.maxSize)
  /\ \E c \in Calls : Full(c) /\ \A d \in Calls : d < c => calls[d].outcome = Pending

\* ------------------------------------------------- calls through views
\* wrap(client, {hooks}) without queue and limiter; the client code calls one
\* method through the root view, a view with two plugins (the second without
\* a before hook) and a view with a per-call timeout.  The method returns,
\* throws an Error or throws another value, and a hook may throw.
PerCallTimeoutMs == 10
SlowCallMs == 100
Plugin1 == Plugin("plugin1", TRUE, TRUE, TRUE)
Plugin2 == Plugin("plugin2", FALSE, TRUE, TRUE)
TwoPluginView == createUse(createUse(RootView, Plugin1), Plugin2)
TimeoutView ==
  createWithOptions(RootView, PerCallOptions(Undefined, Some(PerCallTimeoutMs), Undefined))
CallViews == {RootView, TwoPluginView, TimeoutView}
ViewConfigs ==
  { WrapConfig(hooks, Undefined, Undefined, Undefined, Undefined) :
      hooks \in {NoHooks, AllHooks} }
Faults ==
  {NoFault} \cup { Fault(hook, by) : hook \in {"before", "after", "onError"},
                                     by \in {"global", "plugin1", "plugin2"} }
\* the faults of the hooks that run before the method
BeforeFaults == {fault \in Faults : fault.hook \in {"none", "before"}}
Settlements == {"returns", "Error", "value"}

InitViews == \E cfg \in ViewConfigs : InitWith(cfg, <<>>)
NextViews ==
  \/ \E c \in Calls, view \in CallViews : Call(c, view, <<"f">>)
  \/ \E c \in Calls, fault \in BeforeFaults : InvokeWith(c, fault)
  \/ \E c \in Calls, settled \in Settlements, answer \in Answers \ {"retry"},
        fault \in (Faults \ BeforeFaults) \cup {NoFault} :
       SettleWith(c, settled, answer, fault)
  \/ Tick(SlowCallMs, SlowCallMs)
SpecViews == InitViews /\ [][NextViews]_vars

\* ------------------------------------------------- properties of views
\* the timeout of the view of call c, when it sets one
HasPerCallTimeout(c) ==
  /\ IsDefined(calls[c].view.perCallOptions)
  /\ IsDefined(Val(calls[c].view.perCallOptions).timeout)
PerCallTimeout(c) == Val(Val(calls[c].view.perCallOptions).timeout)

\* C11: a call through withOptions({timeout: t}) whose method has not
\* settled t ms after the call is rejected with "Method '<path>' timed out
\* after <t>ms".
C11_PerCallTimeoutRejects ==
  \A c \in Calls :
    (HasPerCallTimeout(c) /\ calls[c].pc = "invoked"
       /\ now > calls[c].startTime + PerCallTimeout(c)) =>
      calls[c].outcome = Rejected("timed out after", calls[c].path)

\* the steps of call c so far, each as <<hook, by>>
Steps(c) == [i \in 1..Len(calls[c].hooks) |-> <<calls[c].hooks[i].hook, calls[c].hooks[i].by>>]
\* the steps of call c made by the hooks named hook of plugins
PluginSteps(c, hook) ==
  SelectSeq(Steps(c), LAMBDA step : step[1] = hook /\ step[2] \notin {"global", "method"})
\* the same for the global hook as well
HookSteps(c, hook) == SelectSeq(Steps(c), LAMBDA step : step[1] = hook)
HookThrew(c) == AnyThrew(calls[c].hooks)
Finished(c) == calls[c].pc = "finished"
Failed(c) == calls[c].fnResult \in {"Error", "value"}

\* the plugins of the view of call c that define the hook, in registration order
Defining(c, hook) ==
  SelectSeq(calls[c].view.plugins,
            LAMBDA plugin : CASE hook = "before" -> plugin.before
                              [] hook = "after" -> plugin.after
                              [] hook = "onError" -> plugin.onError)
InOrder(c, hook) == [i \in 1..Len(Defining(c, hook)) |-> <<hook, Defining(c, hook)[i].name>>]
GlobalStep(hook) == IF config.hooks[hook] THEN << <<hook, "global">> >> ELSE <<>>

\* a is b, or what b is up to a hook that threw
AsFarAsItGot(c, a, b) == IsPrefix(a, b) /\ (~HookThrew(c) => a = b)

\* C16: a call runs the before hooks of the view's plugins in registration
\* order; when the method returns it runs their after hooks in reverse
\* order, and when the method fails their onError hooks in reverse order
\* (short of the hooks behind one that threw).
C16_PluginHooksInOrder ==
  \A c \in Calls :
    /\ IsPrefix(PluginSteps(c, "before"), InOrder(c, "before"))
    /\ calls[c].invoked > 0 => PluginSteps(c, "before") = InOrder(c, "before")
    /\ (Finished(c) /\ calls[c].fnResult = "returns") =>
         AsFarAsItGot(c, PluginSteps(c, "after"), Reverse(InOrder(c, "after")))
    /\ (Finished(c) /\ Failed(c)) =>
         AsFarAsItGot(c, PluginSteps(c, "onError"), Reverse(InOrder(c, "onError")))

\* the steps of a call up to the method, and all of them once the method has
\* settled
StepsToMethod(c) ==
  GlobalStep("before") \o InOrder(c, "before") \o << <<"call", "method">> >>
AllSteps(c) ==
  StepsToMethod(c) \o
    (IF Failed(c) THEN Reverse(InOrder(c, "onError")) \o GlobalStep("onError")
     ELSE Reverse(InOrder(c, "after")) \o GlobalStep("after"))

\* C17: the steps of a call come one after the other in this order: global
\* before, plugin befores, the method, then plugin afters and global after
\* when it returned, or plugin onErrors and global onError when it failed.
C17_StepsInOrder ==
  \A c \in Calls :
    IF calls[c].fnResult = "none" THEN IsPrefix(Steps(c), StepsToMethod(c))
    ELSE /\ IsPrefix(Steps(c), AllSteps(c))
         /\ (Finished(c) /\ ~HookThrew(c)) => Steps(c) = AllSteps(c)

\* the plugin named name in the view of call c
PluginNamed(c, name) ==
  LET plugins == calls[c].view.plugins
  IN plugins[CHOOSE i \in 1..Len(plugins) : plugins[i].name = name]

\* C18: the context given to the after or onError hook of a plugin is what
\* the before hook of that plugin returned in the same call, and undefined
\* when the plugin has no before hook.
C18_OwnContext ==
  \A c \in Calls :
    \A i \in 1..Len(calls[c].hooks) :
      LET e == calls[c].hooks[i]
      IN (e.hook \in {"after", "onError"} /\ e.by \notin {"global", "method"}) =>
           e.context = IF PluginNamed(c, e.by).before THEN ContextOf(c, e.by)
                       ELSE Undefined

\* Two calls through the view with two plugins have run side by side: one
\* gave both plugins their contexts in the after hooks, the other in the
\* onError hooks.
C18_Witness ==
  \E c, d \in Calls :
    /\ c # d /\ Finished(c) /\ Finished(d)
    /\ calls[c].view = TwoPluginView /\ calls[d].view = TwoPluginView
    /\ PluginSteps(c, "after") = << <<"after", "plugin2">>, <<"after", "plugin1">> >>
    /\ PluginSteps(d, "onError") = << <<"onError", "plugin2">>, <<"onError", "plugin1">> >>
    /\ \E i, j \in 1..Len(calls[c].hooks) :
         /\ calls[c].hooks[i].hook = "call" /\ calls[d].hooks[j].hook = "call"
    /\ \E i \in 1..Len(calls[c].hooks) : calls[c].hooks[i].context = ContextOf(c, "plugin1")
                                          /\ calls[c].hooks[i].hook = "after"
    /\ \E i \in 1..Len(calls[d].hooks) : calls[d].hooks[i].context = ContextOf(d, "plugin1")
                                          /\ calls[d].hooks[i].hook = "onError"

\* C19: an error thrown by a before hook or an after hook, global or of a
\* plugin, reaches the caller as it is: no onError hook runs after it.
C19_HookErrorsPropagate ==
  \A c \in Calls :
    \A i \in 1..Len(calls[c].hooks) :
      (calls[c].hooks[i].threw /\ calls[c].hooks[i].hook \in {"before", "after"}) =>
        /\ \A j \in (i + 1)..Len(calls[c].hooks) : calls[c].hooks[j].hook # "onError"
        /\ Finished(c) => calls[c].outcome = ThrownBy("hook")

\* C20: when the method fails, with an Error or with any other value, the
\* onError hooks of the plugins run in reverse order and then the global
\* onError hook, when defined (short of the hooks behind one that threw).
C20_EveryFailureReachesOnError ==
  \A c \in Calls :
    (Finished(c) /\ Failed(c)) =>
      AsFarAsItGot(c, HookSteps(c, "onError"),
                   Reverse(InOrder(c, "onError")) \o GlobalStep("onError"))

\* an onError hook of a plugin ran in call c and returned a value
PluginSubstitutes(c) ==
  \E i \in 1..Len(calls[c].hooks) :
    LET e == calls[c].hooks[i]
    IN e.hook = "onError" /\ e.by # "global" /\ e.returned = "value"
\* hooks.onError ran in call c and did this
GlobalAnswered(c, answer) ==
  \E i \in 1..Len(calls[c].hooks) :
    LET e == calls[c].hooks[i]
    IN e.hook = "onError" /\ e.by = "global" /\ e.returned = answer
GlobalRan(c) == <<"onError", "global">> \in {Steps(c)[i] : i \in 1..Len(Steps(c))}

\* C21: when the wrapped function fails, a value returned by an onError hook
\* of a plugin, like a value returned by hooks.onError, becomes the result
\* the caller gets instead of the error; when no onError hook runs, the error
\* reaches the caller.
C21_AnyOnErrorSubstitutes ==
  \A c \in Calls :
    (Finished(c) /\ Failed(c) /\ ~HookThrew(c)) =>
      /\ (PluginSubstitutes(c) \/ GlobalAnswered(c, "fallback")) =>
           calls[c].outcome.st = "resolved"
      /\ HookSteps(c, "onError") = <<>> => calls[c].outcome = ThrownBy(calls[c].fnResult)

\* C21 as amended: only hooks.onError substitutes.  A value it returns is the
\* result the caller gets; what the onError hooks of plugins return is
\* dropped, so that the error reaches the caller when hooks.onError does not
\* run or throws the error on.
C21_OnlyGlobalSubstitutes ==
  \A c \in Calls :
    (Finished(c) /\ Failed(c) /\ ~HookThrew(c)) =>
      /\ GlobalAnswered(c, "fallback") => calls[c].outcome = Resolved("fallback")
      /\ (~GlobalRan(c) \/ GlobalAnswered(c, "rethrow")) =>
           calls[c].outcome = ThrownBy(calls[c].fnResult)

\* The onError hook of plugin1 returned a value in two calls that failed: in
\* one hooks.onError threw the error on, and the caller got the error; in the
\* other hooks.onError returned the fallback, and the caller got that.
C21_Witness ==
  \E c, d \in Calls :
    /\ Finished(c) /\ Finished(d)
    /\ calls[c].fnResult = "Error" /\ calls[d].fnResult = "Error"
    /\ PluginSubstitutes(c) /\ PluginSubstitutes(d)
    /\ GlobalAnswered(c, "rethrow") /\ calls[c].outcome = ThrownBy("Error")
    /\ GlobalAnswered(d, "fallback") /\ calls[d].outcome = Resolved("fallback")

\* C22: a failure of the wrapped function reaches the caller as a failure
\* unless an onError hook returns a fallback value; when hooks.onError returns
\* nothing and does not throw, the call is rejected.
C22_FailureSurfacesWithoutFallback ==
  \A c \in Calls :
    (Finished(c) /\ Failed(c)
       /\ ~PluginSubstitutes(c) /\ ~GlobalAnswered(c, "fallback")) =>
      calls[c].outcome.st = "rejected"

\* ------------------------------------------------- retry()
\* wrap(client, {hooks, rateLimit: {requestsPerSecond: 1, concurrency: 1},
\* queue?}); hooks.before gives method s new arguments, and hooks.onError
\* throws the error on or returns retry().  The client code calls two methods
\* through the root view and a view with a plugin.
RetryConfigs ==
  { WrapConfig(AllHooks, Some(RateConfig(Some(Fin(1)), Undefined, Some(Fin(1)))), queue,
               Undefined, Undefined) :
      queue \in {Undefined, Some(QueueConfig(Some(1), Undefined, Undefined))} }

InitRetry == \E cfg \in RetryConfigs : InitWith(cfg, <<>>)
NextRetry ==
  \/ \E c \in Calls, view \in {RootView, PluginView}, p \in RatePaths : Call(c, view, p)
  \/ \E c \in Calls : Retry(c)
  \/ \E c \in Calls : Invoke(c)
  \/ \E c \in Calls, settled \in {"returns", "Error"}, answer \in {"rethrow", "retry"} :
       SettleWith(c, settled, answer, NoFault)
  \/ \E c \in Calls, settled \in {"returns", "Error"} : RetrySettle(c, settled)
  \/ \E d \in NextTimer : Tick(d, MaxTime)
SpecRetry == InitRetry /\ [][NextRetry]_vars

\* the arguments the wrapped function of call c is to get
beforeReturnsOr(c) ==
  IF beforeReturns(calls[c].path) = "undefined" THEN "args" ELSE beforeReturns(calls[c].path)
\* how often event was emitted for call c
Emitted(c, event) ==
  Cardinality({i \in 1..Len(calls[c].emitted) : calls[c].emitted[i] = event})
\* the steps call c makes in this step
NewSteps(c) ==
  [i \in 1..(Len(calls'[c].hooks) - Len(calls[c].hooks)) |->
     <<calls'[c].hooks[Len(calls[c].hooks) + i].hook,
       calls'[c].hooks[Len(calls[c].hooks) + i].by>>]

\* The step in which hooks.onError returns retry(): after the onError hooks
\* the wrapped function is invoked once more, with the receiver and the
\* arguments of the first invocation, and nothing else changes.
RetryInvokesOnly ==
  \A c \in Calls :
    (calls[c].pc = "invoked" /\ calls'[c].pc = "retrying") =>
      /\ calls'[c].invoked = calls[c].invoked + 1
      /\ calls[c].applied = <<[target |-> "target", args |-> beforeReturnsOr(c)]>>
      /\ calls'[c].applied = Append(calls[c].applied, calls[c].applied[1])
      /\ NewSteps(c) = Reverse(InOrder(c, "onError"))
                         \o << <<"onError", "global">>, <<"call", "method">> >>
      /\ calls'[c].emitted = calls[c].emitted
      /\ calls'[c].admitTime = calls[c].admitTime
      /\ calls'[c].requestId = calls[c].requestId /\ calls'[c].slot = calls[c].slot
      /\ \A d \in Calls \ {c} : calls'[d] = calls[d]
      /\ UNCHANGED <<queueState, rateLimiter, stats, listeners, dispatched>>
\* While the retried invocation runs the call does nothing; when it settles
\* the call completes as every call does, and no hook runs.
RetriedRunsNoHook ==
  \A c \in Calls :
    calls[c].pc = "retrying" =>
      \/ calls'[c] = calls[c]
      \/ /\ Finished(c)'
         /\ calls'[c].hooks = calls[c].hooks /\ calls'[c].applied = calls[c].applied
         /\ calls'[c].emitted = Append(calls[c].emitted, "completed")
\* A call that was retried counts as one call.
RetriedCountsOnce ==
  /\ \A c \in Calls :
       Len(calls[c].applied) > 1 =>
         /\ Emitted(c, "executing") = 1 /\ Emitted(c, "queued") <= 1
         /\ Finished(c) => Emitted(c, "completed") = 1
  /\ stats.totalRequests = Cardinality({c \in Calls : Finished(c)})

\* C23: retry(), called from hooks.onError, invokes the wrapped function again
\* with the same receiver and the arguments as hooks.before left them, and
\* does nothing else: nothing is enqueued, no token is taken, no in-flight
\* count changes, no hook runs, no event is emitted, the stats stay.
C23_RetryOnlyInvokes ==
  [][RetryInvokesOnly /\ RetriedRunsNoHook]_vars /\ []RetriedCountsOnce

\* A call of method s through the view with a plugin failed, was retried with
\* the arguments hooks.before had given it, and got the result of the second
\* invocation, all in the millisecond of the call: the one token of s paid
\* for the first invocation, and the bucket is empty.
C23_Witness ==
  \E c \in Calls :
    /\ Finished(c) /\ calls[c].path = <<"s">> /\ calls[c].view = PluginView
    /\ calls[c].applied = <<[target |-> "target", args |-> "modified-arg"],
                            [target |-> "target", args |-> "modified-arg"]>>
    /\ calls[c].outcome = Resolved("result")
    /\ IsDefined(queueState)
    /\ now = 0 /\ Val(Limiter.buckets[<<"s">>]).tokens = Fin(0)

\* ------------------------------------------------- derived views
\* wrap(client, {rateLimit: {requestsPerSecond: 1}, queue?}); the client code
\* derives views from the views it holds, by use() and withOptions() in any
\* chain, and calls one method through any of them.
DeriveConfigs ==
  { WrapConfig(NoHooks, Some(Rps(1)), queue, Undefined, Undefined) :
      queue \in {Undefined, Some(QueueConfig(Some(1), Undefined, Undefined))} }
HighPriority == PerCallOptions(Some("high"), Undefined, Undefined)

InitDerive == \E cfg \in DeriveConfigs : InitWith(cfg, <<>>)
NextDerive ==
  \/ \E v \in 1..MaxViews, plugin \in {Plugin1, Plugin2} : Use(v, plugin, MaxViews)
  \/ \E v \in 1..MaxViews : WithOptions(v, HighPriority, MaxViews)
  \/ \E c \in Calls, v \in 1..MaxViews : CallThrough(c, v, <<"f">>)
  \/ \E c \in Calls : Retry(c)
  \/ \E c \in Calls : Invoke(c)
  \/ \E c \in Calls, threw \in BOOLEAN : Settle(c, threw, FALSE)
  \/ \E d \in NextTimer : Tick(d, MaxTime)
SpecDerive == InitDerive /\ [][NextDerive]_vars

\* the calls that hold a slot of the queue
Holding == {c \in Calls : calls[c].slot = "held"}
\* the calls whose executeCore has run its finally block
Completed == {c \in Calls : Emitted(c, "completed") > 0}
\* the views through which calls have been made
ViewsCalled == {calls[c].view : c \in {d \in Calls : calls[d].pc # "idle"}}

\* One queue for all views: the calls that run, whatever their views, are
\* those the queue counts, and never more than its concurrency.
OneQueue ==
  IsDefined(queueState) =>
    /\ Queue.running = Cardinality(Holding)
    /\ HasCap => Cardinality(Holding) <= Cap
\* One bucket and one in-flight count per path for all views: by the time of
\* each admission at most maxTokens + rate * time calls were admitted.
OneLimiter ==
  \A p \in Paths :
    /\ Limiter.concurrentCount[p] = Cardinality(InFlight(p))
    /\ PlainRate(p) =>
         \A c \in Made(p) :
           calls[c].admitted =>
             LET t == calls[c].admitTime
             IN MsPerSecond * Cardinality(AdmittedAt(p, t) \cup AdmittedBefore(p, t))
                  <= MsPerSecond * RateOf(p) + t * RateOf(p)
\* One stats object for all views.
OneStats ==
  /\ stats.totalRequests = Cardinality(Completed)
  /\ Len(stats.latencies) = Cardinality(Completed)

\* C24: all views derived from one wrap() by any chain of use() and
\* withOptions() share the queue, the buckets and in-flight counts and the
\* stats: calls through different views together never exceed the queue
\* concurrency or the token budget of their path, and stats.totalRequests
\* counts the calls of all views.
C24_ViewsShareState == OneQueue /\ OneLimiter /\ OneStats

\* Two calls of one method were made through two different views, one of
\* them derived by a chain of use() and withOptions(): the second had to
\* wait for the token the first left it a second later, and the stats count
\* both.
C24_Witness ==
  /\ Cardinality(ViewsCalled) = 2
  /\ createWithOptions(createUse(RootView, Plugin1), HighPriority) \in ViewsCalled
  /\ \A c \in Calls : Finished(c) /\ calls[c].path = <<"f">>
  /\ Cardinality(AdmittedAt(<<"f">>, 0)) = 1
  /\ Cardinality(AdmittedAt(<<"f">>, MsPerSecond)) = 1
  /\ stats.totalRequests = MaxCalls

\* Deriving a view leaves every view held as it is, and touches neither the
\* shared state nor any call.
DerivingChangesNoView ==
  views' # views =>
    /\ Len(views') = Len(views) + 1
    /\ \A v \in 1..Len(views) : views'[v] = views[v]
    /\ UNCHANGED <<queueState, rateLimiter, stats, listeners, calls, dispatched>>
\* the names of the plugins whose hooks ran in call c
PluginsRun(c) ==
  {calls[c].hooks[i].by : i \in 1..Len(calls[c].hooks)} \ {"global", "method"}
\* the priority the request of call c was given
RequestsOf(c) ==
  {Queue.queue[i] : i \in {j \in 1..Len(Queue.queue) : Queue.queue[j].call = c}}
  \cup {dispatched[i] : i \in {j \in 1..Len(dispatched) : dispatched[j].call = c}}
\* A call runs with the plugins and options of the view it was made through,
\* which is one of the views held.
CallsRunAsTheirView ==
  \A c \in Calls :
    calls[c].pc # "idle" =>
      /\ \E v \in 1..Len(views) : views[v] = calls[c].view
      /\ PluginsRun(c) \subseteq
           {calls[c].view.plugins[i].name : i \in 1..Len(calls[c].view.plugins)}
      /\ calls[c].invoked > 0 =>
           PluginSteps(c, "before") = InOrder(c, "before")
      /\ IsDefined(queueState) =>
           \A request \in RequestsOf(c) : request.priority = priorityOf(calls[c].view)

\* C25: use(plugin) and withOptions(opts) change nothing in the view they
\* are called on: the calls made through that view, and through every other
\* view, run with the plugins and per-call options the view had before.
C25_DerivingLeavesViewsAlone == [][DerivingChangesNoView]_vars /\ []CallsRunAsTheirView

\* After use(plugin1) and withOptions on the root view, a call through the
\* view with the plugin ran its hooks, and a later call through the root
\* view ran no plugin hook and was queued with normal priority.
C25_Witness ==
  /\ IsDefined(queueState)
  /\ views = <<RootView, createUse(RootView, Plugin1),
               createWithOptions(RootView, HighPriority)>>
  /\ \E c, d \in Calls :
       /\ d < c /\ Finished(c) /\ Finished(d)
       /\ calls[d].view = views[2] /\ PluginsRun(d) = {"plugin1"}
       /\ calls[c].view = RootView /\ PluginsRun(c) = {} /\ calls[c].invoked = 1
       /\ \E request \in RequestsOf(c) : request.priority = "normal"

\* ------------------------------------------------- access control
\* wrap(client, {allowlist?, blocklist?}) with lists of glob patterns; the
\* client code calls one method of the client, of any path.
\* the strings of at most n characters
Strings(chars, n) == UNION {[1..k -> chars] : k \in 0..n}
\* The paths of a client's methods: names joined by dots.
MethodPaths ==
  {str \in Strings({"f", "c", Dot}, MaxPathLen) :
     \A i \in 1..Len(SplitDots(str)) : SplitDots(str)[i] # <<>>}
Patterns == Strings({"f", Dot, Star}, MaxPatternLen)
\* lists as the tests give them: none, an empty one, one of an exact path,
\* one of two globs
PatternLists ==
  { Undefined, Some(<<>>), Some(<< <<"f">> >>),
    Some(<< <<"f", Dot, Star>>, <<Star, Star, Dot, "c">> >>) }
AccessConfigs ==
  { WrapConfig(NoHooks, Undefined, Undefined, Some(<<pattern>>), Undefined) :
      pattern \in Patterns }
  \cup { WrapConfig(NoHooks, Undefined, Undefined, allowlist, blocklist) :
           allowlist \in PatternLists, blocklist \in PatternLists }
\* the client code calls the method of one path
AccessScript(methodPath) == <<Planned(RootView, methodPath)>>

InitAccess ==
  \E cfg \in AccessConfigs, methodPath \in MethodPaths :
    BeforeWrap(cfg, AccessScript(methodPath))
NextAccess ==
  \/ Wrap
  \/ \E c \in Calls : CallPlanned(c)
SpecAccess == InitAccess /\ [][NextAccess]_vars

BothLists == IsDefined(config.allowlist) /\ IsDefined(config.blocklist)

\* C26: wrap() with a config that has both an allowlist and a blocklist
\* throws the configuration error and gives no wrapper, whatever the lists
\* hold, empty arrays included; with at most one of them, or no config,
\* wrap() returns the wrapper.
C26_BothListsRejected ==
  wrapped # Pending =>
    IF BothLists
    THEN /\ wrapped = ConfigurationError
         /\ views = <<>> /\ \A c \in Calls : calls[c].pc = "idle"
    ELSE wrapped = Resolved("wrapper") /\ views = <<RootView>>

\* wrap() threw for a config whose two lists are empty arrays.
C26_Witness ==
  /\ config.allowlist = Some(<<>>) /\ config.blocklist = Some(<<>>)
  /\ wrapped = ConfigurationError

\* what checkAccess is to decide for a path
Blocked(methodPath) ==
  /\ IsDefined(config.blocklist)
  /\ \E i \in 1..Len(Val(config.blocklist)) :
       matchPattern(methodPath, Val(config.blocklist)[i])
NotAllowed(methodPath) ==
  /\ IsDefined(config.allowlist)
  /\ \A i \in 1..Len(Val(config.allowlist)) :
       ~matchPattern(methodPath, Val(config.allowlist)[i])
Decision(methodPath) ==
  IF Blocked(methodPath) THEN [isAllowed |-> FALSE, reason |-> <<"blocked", methodPath>>]
  ELSE IF NotAllowed(methodPath)
  THEN [isAllowed |-> FALSE, reason |-> <<"not allowed", methodPath>>]
  ELSE [isAllowed |-> TRUE, reason |-> <<"undefined", methodPath>>]

\* C27: checkAccess denies a path that matches a pattern of the blocklist
\* with 'Method "<path>" is blocked'; else a path that matches no pattern of
\* the allowlist with 'Method "<path>" is not allowed'; else it allows the
\* path, as it does every path when no list is configured.
C27_AccessDecision ==
  /\ \A methodPath \in {plan[i].path : i \in 1..Len(plan)} :
       checkAccess(methodPath, config.allowlist, config.blocklist) = Decision(methodPath)
  /\ \A c \in Calls :
       calls[c].pc # "idle" =>
         IF Decision(calls[c].path).isAllowed
         THEN calls[c].pc = "admitted" /\ calls[c].outcome = Pending
         ELSE /\ calls[c].pc = "none"
              /\ calls[c].outcome = Rejected(Decision(calls[c].path).reason[1], calls[c].path)

\* A call of c.f was refused as not allowed by the allowlist [f.*, **.c]:
\* c.f matches neither pattern.
C27_Witness ==
  /\ config.allowlist = Some(<< <<"f", Dot, Star>>, <<Star, Star, Dot, "c">> >>)
  /\ config.blocklist = Undefined
  /\ calls[1].outcome = Rejected("not allowed", <<"c", Dot, "f">>)

\* The reference matcher: the pattern's segments against the path's
\* segments, a literal against the equal segment, * against one segment, **
\* against one or more.
RECURSIVE SegmentsMatch(_, _)
SegmentsMatch(patternSegments, pathSegments) ==
  IF patternSegments = <<>> THEN pathSegments = <<>>
  ELSE IF pathSegments = <<>> THEN FALSE
  ELSE LET segment == Head(patternSegments)
       IN IF segment = <<Star, Star>>
          THEN \E n \in 1..Len(pathSegments) :
                 SegmentsMatch(Tail(patternSegments),
                               SubSeq(pathSegments, n + 1, Len(pathSegments)))
          ELSE /\ segment = <<Star>> \/ segment = Head(pathSegments)
               /\ SegmentsMatch(Tail(patternSegments), Tail(pathSegments))
Matches(methodPath, pattern) == SegmentsMatch(SplitDots(pattern), SplitDots(methodPath))

\* the configs with one list of one pattern
OnePattern(list) == IsDefined(list) /\ Len(Val(list)) = 1

\* C28: for every dot-segmented pattern and every path of non-empty dot-free
\* segments, matchPattern agrees with the reference matcher: what a call of
\* the path gets under an allowlist or a blocklist of the one pattern is
\* what the reference matcher says.
C28_GlobMatchesBySegments ==
  /\ \A methodPath \in {plan[i].path : i \in 1..Len(plan)} :
       /\ OnePattern(config.allowlist) =>
            matchPattern(methodPath, Val(config.allowlist)[1])
              = Matches(methodPath, Val(config.allowlist)[1])
       /\ OnePattern(config.blocklist) =>
            matchPattern(methodPath, Val(config.blocklist)[1])
              = Matches(methodPath, Val(config.blocklist)[1])
  /\ \A c \in Calls :
       calls[c].pc # "idle" =>
         /\ (OnePattern(config.allowlist) /\ ~IsDefined(config.blocklist)) =>
              (calls[c].pc = "none" <=> ~Matches(calls[c].path, Val(config.allowlist)[1]))
         /\ (OnePattern(config.blocklist) /\ ~IsDefined(config.allowlist)) =>
              (calls[c].pc = "none" <=> Matches(calls[c].path, Val(config.blocklist)[1]))

\* Under the allowlist [**.f] a call of c.c.f went through.
C28_Witness ==
  /\ config.allowlist = Some(<< <<Star, Star, Dot, "f">> >>)
  /\ \E c \in Calls : calls[c].path = <<"c", Dot, "c", Dot, "f">> /\ calls[c].pc = "admitted"

\* ------------------------------------------------- rate limits per path
\* the entry that governs path p: the flat config, or perMethod[p], or default
Governs(p) ==
  LET rl == Limiter.config
  IN IF ~IsDefined(rl.default) /\ ~IsDefined(rl.perMethod) THEN Some(rl)
     ELSE IF IsDefined(rl.perMethod) /\ IsDefined(Val(rl.perMethod)[p])
     THEN Val(rl.perMethod)[p]
     ELSE rl.default
\* call c is admitted by tryAcquire in this step
Acquires(c) == calls'[c].admitted /\ ~calls[c].admitted
Attempts(c) == Acquires(c) \/ Denied(c)
LimiterAfter == Val(rateLimiter')

\* an attempt on a path is judged by the entry that governs the path: its
\* bucket has the rate and the size of that entry, and it is turned away at
\* the cap of that entry
GovernedByItsEntry ==
  \A c \in Calls :
    LET p == calls'[c].path
    IN (Attempts(c) /\ IsDefined(Governs(p))) =>
         LET entry == Val(Governs(p))
             full == /\ Truthy(entry.concurrency)
                     /\ NumGeq(Fin(Limiter.concurrentCount[p]), Val(entry.concurrency))
         IN /\ full => Denied(c) /\ rateLimiter' = rateLimiter
            /\ ~full =>
                 /\ IsDefined(LimiterAfter.buckets[p])
                 /\ Val(LimiterAfter.buckets[p]).tokensPerMs = getRequestsPerSecond(entry)
                 /\ Val(LimiterAfter.buckets[p]).maxTokens
                      = maxTokensOf(getRequestsPerSecond(entry))

\* a path that no entry governs is unlimited: every attempt is admitted
UngovernedIsUnlimited ==
  \A c \in Calls :
    (Attempts(c) /\ ~IsDefined(Governs(calls'[c].path))) => Acquires(c)

\* an attempt on one path leaves the bucket and the count of every other path
OtherPathsUntouched ==
  \A c \in Calls :
    Attempts(c) =>
      \A q \in Paths \ {calls'[c].path} :
        /\ LimiterAfter.buckets[q] = Limiter.buckets[q]
        /\ LimiterAfter.concurrentCount[q] = Limiter.concurrentCount[q]

\* C29: the rate limit of a call is the one of its path: the flat config for
\* every path, or perMethod[path] when present, else default, else none (the
\* path is unlimited); each path has its own bucket and in-flight count, and
\* an acquisition on one path changes neither for another path.
C29_RateLimitPerPath ==
  [][IsDefined(rateLimiter) =>
       GovernedByItsEntry /\ UngovernedIsUnlimited /\ OtherPathsUntouched]_vars

\* the same without the paths that no entry governs
RateLimitPerGovernedPath ==
  [][IsDefined(rateLimiter) => GovernedByItsEntry /\ OtherPathsUntouched]_vars

\* ------------------------------------------------- stats
\* call c reached the execution phase, and its execution has ended
Executed(c) == Emitted(c, "executing") > 0
Ended(c) == calls[c].pc = "finished"
\* the handler of executing threw for call c, before the try block
ThrewAtStart(c) == Emitted(c, "completed") = 0

\* totalRequests counts the recorded latencies, and averageLatency is their mean
StatsAreOfLatencies ==
  /\ stats.totalRequests = Len(stats.latencies)
  /\ stats.averageLatency.num * (IF stats.latencies = <<>> THEN 1 ELSE Len(stats.latencies))
       = reduceSum(stats.latencies) * stats.averageLatency.den

\* C30: totalRequests is the number of calls that reached the execution phase
\* and have ended, succeeded or failed (a denied, queue-full or cleared call
\* adds nothing); it equals the number of recorded latencies, and
\* averageLatency is their arithmetic mean.
C30_TotalRequestsCountsExecutions ==
  /\ stats.totalRequests = Cardinality({c \in Calls : Executed(c) /\ Ended(c)})
  /\ StatsAreOfLatencies

\* the same, counting only the executions that got into the try block
StatsCountCompletions ==
  /\ stats.totalRequests
       = Cardinality({c \in Calls : Executed(c) /\ Ended(c) /\ ~ThrewAtStart(c)})
  /\ StatsAreOfLatencies
\* two calls ended and were counted, one of them after a wait
StatsCountCompletionsSeen ==
  /\ stats.totalRequests = 2
  /\ stats.averageLatency.num > 0

\* ------------------------------------------------- emission
\* wrap(client); the client code registers and removes handlers of executing
\* and the wrapper emits the event.
EmitConfig == WrapConfig(NoHooks, Undefined, Undefined, Undefined, Undefined)
InitEmit == InitWith(EmitConfig, <<>>)
NextEmit ==
  \/ \E handler \in NamedHandlers :
       Cardinality(listeners["executing"]) < MaxHandlers /\ On("executing", handler)
  \/ \E handler \in NamedHandlers : Off("executing", handler)
  \/ Emit("executing")
SpecEmit == InitEmit /\ [][NextEmit]_vars

Delivery == Val(delivery)
Times(handler, called) == Cardinality({i \in DOMAIN called : called[i] = handler})
RegisteredAtStart == {Delivery.registered[i] : i \in DOMAIN Delivery.registered}

\* C31: an emission calls exactly the handlers registered when it started,
\* each once: a handler added during the emission is not called in it, and
\* a handler removed during it is still called.  (An emission that a throwing
\* handler ended is left aside.)
C31_EmitIteratesSnapshot ==
  (IsDefined(delivery) /\ ~Delivery.threw) =>
    \A handler \in NamedHandlers :
      Times(handler, Delivery.called)
        = (IF handler \in RegisteredAtStart THEN 1 ELSE 0)

\* no handler registered at the start adds or removes another handler
NoneMeddles == RegisteredAtStart \cap {"addsLate", "removesReturns"} = {}
\* When no handler adds or removes another one, the emission calls the
\* handlers registered at its start in the order of their registration, also
\* when a handler removes itself.
EmitCallsRegistered ==
  (IsDefined(delivery) /\ ~Delivery.threw /\ NoneMeddles) =>
    Delivery.called = Delivery.registered
EmitCallsRegisteredSeen ==
  /\ IsDefined(delivery) /\ ~Delivery.threw
  /\ Delivery.called = <<"removesSelf", "returns">>
  /\ listeners["executing"] = {"returns"}

\* ------------------------------------------------- the events of a call
\* the events of a call that reached execution, as far as the call has got
EventsDue(c, ended) ==
  (IF IsDefined(queueState) THEN <<"queued">> ELSE <<>>)
  \o <<"executing">>
  \o [i \in 1..calls[c].denials |-> "rateLimited"]
  \o (IF ended THEN <<"completed">> ELSE <<>>)

\* C32: the events of a call that reached execution are, in this order,
\* queued (when a queue is configured), one executing, one rateLimited for
\* each acquisition attempt that was denied, and one completed once the call
\* has settled, whether it succeeded or failed.
C32_EventsInOrder ==
  \A c \in Calls : Executed(c) => calls[c].emitted = EventsDue(c, Ended(c))

\* the same, where a call whose executing handler threw has no completed
EventsInOrderInsideTry ==
  \A c \in Calls :
    Executed(c) => calls[c].emitted = EventsDue(c, Ended(c) /\ ~ThrewAtStart(c))
\* a queued call that was denied once and completed
EventsInOrderSeen ==
  \E c \in Calls :
    calls[c].emitted = <<"queued", "executing", "rateLimited", "completed">>

\* ------------------------------------------------- the unused stats
\* wrap(client, {hooks, rateLimit, queue}); the client code registers a
\* handler of error and makes calls that succeed and calls that fail.
StatsConfigs ==
  { WrapConfig(hooks, Some(Rps(1)), queue, Undefined, Undefined) :
      hooks \in {NoHooks, AllHooks},
      queue \in {Undefined, Some(QueueConfig(Some(1), Undefined, Undefined))} }
InitStats == \E cfg \in StatsConfigs : InitWith(cfg, <<>>)
NextStats ==
  \/ \E c \in Calls, p \in RatePaths : Call(c, RootView, p)
  \/ \E c \in Calls : Retry(c)
  \/ \E c \in Calls : Invoke(c)
  \/ \E c \in Calls, threw, fallback \in BOOLEAN : Settle(c, threw, fallback)
  \/ On("error", "returns")
  \/ Off("error", "returns")
  \/ \E d \in NextTimer : Tick(d, MaxTime)
SpecStats == InitStats /\ [][NextStats]_vars

InQueue(c) == calls[c].pc = "queued"
\* tryAcquire has not been called for call c
NoAcquisition(c) == ~calls[c].admitted /\ calls[c].denials = 0

NextQueueLive ==
  \/ \E c \in Calls, view \in QueueViews : Call(c, view, <<"f">>)
  \/ \E c \in Calls : Invoke(c)
  \/ \E c \in Calls, threw \in BOOLEAN : Settle(c, threw, FALSE)
  \/ \E c \in Calls : Timeout(c)
  \/ Pause
  \/ Resume
  \/ \E d \in NextTimer : Tick(d, MaxQueueTime)
ResumePaused == IsDefined(queueState) /\ Val(queueState).paused /\ Resume
SpecQueueLive ==
  /\ \E cfg \in QueueConfigs : InitWith(cfg, <<>>)
  /\ [][NextQueueLive]_vars
  /\ WF_vars(ResumePaused)
  /\ WF_vars(\E c \in 1..MaxCalls : Invoke(c))
  /\ WF_vars(\E c \in 1..MaxCalls, threw \in BOOLEAN : Settle(c, threw, FALSE))

WasDispatched(c) == \E i \in DOMAIN dispatched : dispatched[i].call = c
\* C35: when the queue is never cleared, every pause() is followed by a
\* resume() and every dispatched task settles or times out, every request
\* that is enqueued is eventually dispatched and its caller gets a result or
\* an error.
C35_QueueDrains ==
  \A c \in 1..MaxCalls :
    InQueue(c) ~> (WasDispatched(c) /\ calls[c].outcome # Pending)

\* Two requests waited in the paused queue of concurrency 2; both were
\* dispatched, one at resume() and one when the first settled, and both
\* callers have their result.
C35_Witness ==
  /\ Val(Val(queueState).config.concurrency) = 2
  /\ Len(dispatched) = 2
  /\ dispatched[1].left = 1
  /\ \A c \in Calls : calls[c].outcome = Resolved("result")

\* ------------------------------------------------- the retry loop ends
\* call c, waiting in the loop of waitForRateLimit, tries again in this step
Retries(c) == calls[c].pc = "waiting" /\ Attempts(c)
\* the path is at its cap when the step starts
AtCap(p) ==
  IsDefined(RateCap(p)) /\ NumGeq(Fin(Limiter.concurrentCount[p]), Val(RateCap(p)))
\* another call of the path was admitted in the millisecond of the step
TokenTaken(c, p) ==
  \E d \in Calls \ {c} :
    calls[d].path = p /\ calls[d].admitted /\ calls[d].admitTime = now

\* C36: a denied call tries again when the reported delay has passed, and
\* that attempt admits it unless the path is at its cap or another call has
\* just taken the token: with finitely many calls that all settle, every
\* round of retries admits a call and no call stays in the loop forever.
C36_RetryLoopEnds ==
  [][\A c \in Calls :
       (IsDefined(rateLimiter) /\ Retries(c) /\ Denied(c)) =>
         LET p == calls[c].path
         IN AtCap(p) \/ TokenTaken(c, p)]_vars

\* the same for the calls of paths with a rate
RetryLoopEndsWithRate ==
  [][\A c \in Calls :
       (IsDefined(rateLimiter) /\ Retries(c) /\ Denied(c)
          /\ ~UnboundedRate(calls[c].path)) =>
         LET p == calls[c].path
         IN AtCap(p) \/ TokenTaken(c, p)]_vars

\* The calls of the rate-limit test under fair scheduling: timers fire, time
\* advances, executors go on and the wrapped function settles.
NextRateLive ==
  \/ \E c \in Calls : CallPlanned(c)
  \/ \E c \in Calls : Retry(c)
  \/ \E c \in Calls : Invoke(c)
  \/ \E c \in Calls : Settle(c, FALSE, FALSE)
  \/ \E d \in NextTimer : Tick(d, MaxTime)
SpecRateLive ==
  /\ InitWith(RateTestConfig, RateScript)
  /\ [][NextRateLive]_vars
  /\ WF_vars(\E c \in 1..Len(RateScript) : Retry(c))
  /\ WF_vars(\E d \in NextTimer : Tick(d, MaxTime))
  /\ WF_vars(\E c \in 1..Len(RateScript) : Invoke(c))
  /\ WF_vars(\E c \in 1..Len(RateScript) : Settle(c, FALSE, FALSE))
\* every call of the test that waits in the retry loop is admitted
WaitingIsAdmitted ==
  \A c \in 1..Len(RateScript) :
    (calls[c].pc = "waiting") ~> calls[c].admitted

\* ------------------------------------------------- executors in progress
\* the executors the queue started and that have not finished
InProgress == {c \in Calls : WasDispatched(c) /\ calls[c].pc # "finished"}
\* the callers the queue timeout has rejected
TimedOutCalls == {c \in Calls : calls[c].outcome = Rejected("Request timed out", NoPath)}

TimeoutConfigs ==
  { WrapConfig(NoHooks, rateLimit,
               Some(QueueConfig(Some(1), Some(QueueTimeoutMs), Undefined)),
               Undefined, Undefined) :
      rateLimit \in {Undefined, Some(Rps(1))} }
InitTimeout == \E cfg \in TimeoutConfigs : InitWith(cfg, <<>>)
NextTimeout ==
  \/ \E c \in Calls : Call(c, RootView, <<"f">>)
  \/ \E c \in Calls : Retry(c)
  \/ \E c \in Calls : Invoke(c)
  \/ \E c \in Calls : Settle(c, FALSE, FALSE)
  \/ \E c \in Calls : Timeout(c)
  \/ Pause
  \/ Resume
  \/ \E d \in NextTimer : Tick(d, MaxTime)
SpecTimeout == InitTimeout /\ [][NextTimeout]_vars

HasTimeout ==
  IsDefined(queueState) /\ Truthy(
    IF IsDefined(Queue.config.timeout) THEN Some(Fin(Val(Queue.config.timeout)))
    ELSE Undefined)
\* the caller of c is rejected with "Request timed out" in this step
TimesOut(c) == c \in TimedOutCalls' /\ c \notin TimedOutCalls
\* a request in the queue has no timer and no answer
QueuedHasNoTimer ==
  \A c \in Calls : InQueue(c) => ~IsDefined(calls[c].qDue) /\ calls[c].outcome = Pending
\* the timer of a dispatched request runs from its dispatch, whatever the
\* executor is doing
TimerRunsFromDispatch ==
  \A c \in Calls :
    (HasTimeout /\ calls[c].slot = "held") =>
      calls[c].qDue = Some(calls[c].startTime + Val(Queue.config.timeout))

\* C38: the queue timeout runs from dispatch: a request that waits in the
\* queue is never rejected with "Request timed out", and a dispatched request
\* whose executor has not settled is rejected timeout ms after its dispatch,
\* also when the executor spent that time waiting for the rate limiter.
C38_TimeoutFromDispatch ==
  /\ []QueuedHasNoTimer
  /\ []TimerRunsFromDispatch
  /\ [][\A c \in Calls :
          TimesOut(c) =>
            /\ WasDispatched(c)
            /\ now = calls[c].startTime + Val(Queue.config.timeout)]_vars

\* The second request was made at 0 and waited in the queue for the whole
\* timeout without being rejected; dispatched when the first timed out, it
\* was denied by the rate limiter and timed out in the retry loop, timeout ms
\* after its dispatch.
C38_Witness ==
  \E c \in Calls :
    /\ c \in TimedOutCalls
    /\ calls[c].callTime = 0
    /\ calls[c].startTime = QueueTimeoutMs
    /\ now = 2 * QueueTimeoutMs
    /\ calls[c].pc = "waiting" /\ ~calls[c].admitted

\* ------------------------------------------------- the queued event
\* the request of call c was added to the queue
Enqueued(c) == IsDefined(calls[c].requestId)
QueueFull(c) == calls[c].outcome = Rejected("Queue is full", NoPath)
\* The step that adds the request of call c to the queue emits queued with
\* the length the queue has when the request has been pushed.
QueuedCarriesNewSize ==
  [][\A c \in Calls :
       (~Enqueued(c) /\ IsDefined(calls'[c].requestId)) =>
         /\ Emitted(c, "queued")' = 1
         /\ calls'[c].queuedSize = Some(Len(Queue.queue) + 1)]_vars

\* C39: queued is emitted only for a request that is added to the queue, and
\* carries the length of the queue right after the request was added; a call
\* rejected with "Queue is full" emits no queued event.
C39_QueuedOnlyWhenEnqueued ==
  /\ [](\A c \in Calls : Emitted(c, "queued") = (IF Enqueued(c) THEN 1 ELSE 0))
  /\ [](\A c \in Calls : QueueFull(c) => Emitted(c, "queued") = 0)
  /\ QueuedCarriesNewSize

\* queued is emitted once for every request added to the queue, with the new
\* length, and once for every call rejected with "Queue is full"
QueuedBeforeEnqueue ==
  /\ [](\A c \in Calls :
          Emitted(c, "queued") = (IF Enqueued(c) \/ QueueFull(c) THEN 1 ELSE 0))
  /\ QueuedCarriesNewSize

\* ------------------------------------------------- property access
\* The client of these reads:
\*   client      { f(), version: "1.0", queue: "ours", c }
\*   client.c    { f(), n: 7, nil: null, d }
\*   client.c.d  { f(), toString() }   (a toString of its own)
\* Every one of them is a plain object and inherits from Object.prototype.
Reserved == {"on", "off", "withOptions", "use", "stats", "queue"}
ObjectPrototype == {"constructor", "toString", "valueOf", "hasOwnProperty"}
Symbols == {"Symbol.iterator"}
Props ==
  Reserved \cup ObjectPrototype \cup Symbols
    \cup {"f", "c", "d", "n", "nil", "version", "missing"}
Targets == {"client", "client.c", "client.c.d"}

\* what a read can give
Primitive(v) == [kind |-> "primitive", v |-> v]
JSUndefined == Primitive("undefined")
Function(owner, name) == [kind |-> "function", owner |-> owner, name |-> name]
Object(id) == [kind |-> "object", id |-> id]
\* a function or object the pipeline made: on, off, withOptions, use, the stats, the queue control
Pipeline(name) == [kind |-> "pipeline", name |-> name]
\* the WrapperState itself
InternalState == [kind |-> "state"]
Throws(error) == [kind |-> "throws", error |-> error]
\* createDeepProxy(value, {...ctx, path})
createDeepProxy(target, path) == [kind |-> "proxy", target |-> target, path |-> path]
\* wrapFunction(fn, context, hookCtx): calling it is executeWithHooks(fn, context, args, hookCtx)
wrapFunction(fn, context, methodPath) ==
  [kind |-> "executor", fn |-> fn, context |-> context, methodPath |-> methodPath]

OwnProperties(target) ==
  CASE target = "client" ->
         [f |-> Function("client", "f"), version |-> Primitive("1.0"),
          queue |-> Primitive("ours"), c |-> Object("client.c")]
    [] target = "client.c" ->
         [f |-> Function("client.c", "f"), n |-> Primitive(7),
          nil |-> Primitive("null"), d |-> Object("client.c.d")]
    [] target = "client.c.d" ->
         [f |-> Function("client.c.d", "f"),
          toString |-> Function("client.c.d", "toString")]

\* Reflect.get(target, prop) on a plain object: its own property, else the
\* one of Object.prototype, else undefined
ReflectGet(target, prop) ==
  IF prop \in DOMAIN OwnProperties(target) THEN OwnProperties(target)[prop]
  ELSE IF prop \in ObjectPrototype THEN Function("Object.prototype", prop)
  ELSE JSUndefined

\* wrapperPropertyHandlers[prop]: the table is an object literal, so the
\* lookup finds its six entries and what it inherits from Object.prototype
wrapperPropertyHandlers(prop) ==
  IF prop \in Reserved THEN Some(Function("wrapperPropertyHandlers", prop))
  ELSE IF prop \in ObjectPrototype THEN Some(Function("Object.prototype", prop))
  ELSE Undefined

\* handler(state, rootClient), called with no receiver:
\*   Object(state) is state; Object.prototype.toString.call(undefined) is
\*   "[object Undefined]"; valueOf and hasOwnProperty convert the receiver
\*   to an object and throw a TypeError
applyHandler(handler) ==
  IF handler.owner = "wrapperPropertyHandlers" THEN Pipeline(handler.name)
  ELSE CASE handler.name = "constructor" -> InternalState
         [] handler.name = "toString" -> Primitive("[object Undefined]")
         [] handler.name \in {"valueOf", "hasOwnProperty"} -> Throws("TypeError")

handleWrapperProperty(prop) ==
  IF prop \in Symbols THEN JSUndefined
  ELSE IF IsDefined(wrapperPropertyHandlers(prop))
       THEN applyHandler(Val(wrapperPropertyHandlers(prop)))
       ELSE JSUndefined

\* ctx.path ? `${ctx.path}.${propName}` : propName
extendPath(path, prop) == IF path = <<>> THEN <<prop>> ELSE path \o <<".", prop>>

\* what the proxy does with the value of the target
resolveOnTarget(target, path, prop) ==
  LET value == ReflectGet(target, prop)
      newPath == extendPath(path, prop)
  IN IF value.kind = "object" THEN createDeepProxy(value.id, newPath)
     ELSE IF value.kind = "function" THEN wrapFunction(value, target, newPath)
     ELSE value

\* the get trap of createProxyHandler(ctx), ctx.path = path
get(target, path, prop) ==
  LET wrapperProp == handleWrapperProperty(prop)
  IN IF wrapperProp # JSUndefined THEN wrapperProp
     ELSE resolveOnTarget(target, path, prop)

\* The client code reads a property on a proxy.
Get(target, path, prop) ==
  /\ wrapped = Resolved("wrapper")
  /\ got' = Some([target |-> target, path |-> path, prop |-> prop,
                  value |-> get(target, path, prop)])
  /\ UNCHANGED <<now, config, queueState, rateLimiter, listeners, stats, calls,
                 dispatched, plan, wrapped, views, delivery>>
\* on the wrapper wrap() returned
GetRoot(prop) == Get("client", <<>>, prop)
\* on the proxy the last read gave
GetNested(prop) ==
  /\ IsDefined(got)
  /\ Val(got).value.kind = "proxy"
  /\ Get(Val(got).value.target, Val(got).value.path, prop)
\* The client code calls the executor the last read gave.
CallGot(c) ==
  /\ IsDefined(got)
  /\ Val(got).value.kind = "executor"
  /\ Call(c, RootView, Val(got).value.methodPath)

InitGet == InitWith(EmitConfig, <<>>)
NextGet ==
  \/ \E prop \in Props : GetRoot(prop)
  \/ \E prop \in Props : GetNested(prop)
  \/ \E c \in Calls : CallGot(c)
  \/ \E c \in Calls : Invoke(c)
  \/ \E c \in Calls, threw \in BOOLEAN : Settle(c, threw, FALSE)
SpecGet == InitGet /\ [][NextGet]_vars

Got == Val(got)
\* the read gave what the target holds: a proxy of the object with the
\* longer path, an executor of the function bound to the target it was read
\* from, or the primitive itself
GivenByTarget ==
  LET value == ReflectGet(Got.target, Got.prop)
      newPath == extendPath(Got.path, Got.prop)
  IN CASE value.kind = "object" ->
            Got.value = createDeepProxy(value.id, newPath)
       [] value.kind = "function" ->
            /\ Got.value.kind = "executor"
            /\ Got.value.fn = value
            /\ Got.value.context = Got.target
            /\ Got.value.methodPath = newPath
       [] OTHER -> Got.value = value

\* C40: at every depth only on, off, withOptions, use, stats and queue are
\* answered by the pipeline; every other name, the names a plain object
\* inherits included, is resolved on the target (object: proxy with the
\* extended path; function: executor bound to its receiver; primitive:
\* itself), and no read gives the internal state of the wrapper.
C40_OnlyReservedNamesAnswered ==
  IsDefined(got) =>
    /\ Got.prop \in Reserved => Got.value = Pipeline(Got.prop)
    /\ Got.prop \notin Reserved => GivenByTarget
    /\ Got.value # InternalState

\* the same, except for the names the handler table inherits from
\* Object.prototype
NamesNotInheritedResolve ==
  IsDefined(got) =>
    /\ Got.prop \in Reserved => Got.value = Pipeline(Got.prop)
    /\ Got.prop \notin Reserved \cup ObjectPrototype => GivenByTarget
    /\ Got.prop \notin ObjectPrototype => Got.value # InternalState
\* the call of an executor runs the pipeline under the path of the read
ExecutorIntercepts ==
  [][\A c \in Calls :
       (calls[c].pc = "idle" /\ calls'[c].pc # "idle") =>
         /\ Got.value.kind = "executor"
         /\ calls'[c].path = Got.value.methodPath
         /\ Emitted(c, "executing")' = 1]_vars
\* a function three levels down was read and called
NestedExecutorCalled ==
  \E c \in Calls : calls[c].path = <<"c", ".", "d", ".", "f">> /\ calls[c].invoked = 1

====
